---- MODULE Spec2Model ----
(***************************************************************************)
(* DeepFocus: the semantic relevance engine of the background service      *)
(* worker (src/src/background.ts) with its embedding provider              *)
(* (src/src/ml/embeddings.ts) and windowing tokenizer                      *)
(* (src/src/ml/tokenizer.ts).                                              *)
(*                                                                         *)
(* A text is a sequence of one-character strings.  Floating-point scores   *)
(* are fixed-point integers in units of 1/SCALE; embedding components are  *)
(* integers in units of 1/UNIT.  One action is one run of JavaScript from  *)
(* one await to the next: the event loop runs such a piece atomically.     *)
(***************************************************************************)
EXTENDS Integers, Sequences, FiniteSets, TLC

\* ------------------------------------------------------------------------
\* Numeric representation
\* ------------------------------------------------------------------------

\* Scores: 1.0 is SCALE.
SCALE == 1000
\* Embedding components: 1.0 is UNIT.
UNIT == 10

Min(a, b) == IF a < b THEN a ELSE b
Max(a, b) == IF a > b THEN a ELSE b

\* Math.sqrt on the fixed-point grid (rounded down).
Sqrt(n) == CHOOSE r \in 0..n : r * r <= n /\ (r + 1) * (r + 1) > n

\* Math.ceil(n * 0.5) and Math.floor(n * 0.25) for a length n >= 0.
CeilHalf(n) == (n + 1) \div 2
FloorQuarter(n) == n \div 4

\* ------------------------------------------------------------------------
\* ml/tokenizer.ts
\* ------------------------------------------------------------------------

\* The characters of the class \s that the texts here use.
IsWhitespace(c) == c \in {" ", "\t", "\n", "\r", "\f"}

\* The letters that texts here write in upper case, with their lower case.
LowerCaseOf(c) ==
  CASE c = "A" -> "a"
    [] c = "H" -> "h"
    [] c = "T" -> "t"
    [] c = "W" -> "w"
    [] OTHER -> c

\* String.prototype.toLowerCase()
ToLowerCase(text) == [i \in 1..Len(text) |-> LowerCaseOf(text[i])]

\* String.prototype.trim().length === 0
TrimIsEmpty(text) == \A i \in 1..Len(text) : IsWhitespace(text[i])

\* String.prototype.split(/\s+/): the maximal runs of non-whitespace
\* characters, with an empty piece in front when the text is empty or starts
\* with whitespace and an empty piece behind when it ends with whitespace.
SplitWhitespace(text) ==
  LET n == Len(text)
      idx == [i \in 1..n |-> i]
      IsStart(i) == ~IsWhitespace(text[i]) /\ (i = 1 \/ IsWhitespace(text[i - 1]))
      IsEnd(i) == ~IsWhitespace(text[i]) /\ (i = n \/ IsWhitespace(text[i + 1]))
      starts == SelectSeq(idx, IsStart)
      ends == SelectSeq(idx, IsEnd)
      runs == [k \in 1..Len(starts) |-> SubSeq(text, starts[k], ends[k])]
      front == IF n = 0 \/ IsWhitespace(text[1]) THEN << <<>> >> ELSE <<>>
      back == IF n > 0 /\ IsWhitespace(text[n]) THEN << <<>> >> ELSE <<>>
  IN front \o runs \o back

NonEmptyToken(token) == Len(token) > 0

\* Variant: the text is split as it is written.
tokenizeKeepCase(text) == SelectSeq(SplitWhitespace(text), NonEmptyToken)

tokenize(text) == SelectSeq(SplitWhitespace(ToLowerCase(text)), NonEmptyToken)

\* Array.prototype.join(' ')
RECURSIVE JoinRange(_, _, _)
JoinRange(tokens, lo, hi) ==
  IF lo > hi THEN <<>>
  ELSE IF lo = hi THEN tokens[lo]
  ELSE LET mid == (lo + hi) \div 2
       IN JoinRange(tokens, lo, mid) \o <<" ">> \o JoinRange(tokens, mid + 1, hi)

\* Variant: the tokens joined with a trailing separator after each.
JoinTrailing(tokens) ==
  IF Len(tokens) = 0 THEN <<>> ELSE JoinRange(tokens, 1, Len(tokens)) \o <<" ">>

Join(tokens) == JoinRange(tokens, 1, Len(tokens))

\* Array.prototype.slice: a negative index counts from the end, and both
\* indices are clamped to the array.
RelativeIndex(k, len) == IF k < 0 THEN Max(len + k, 0) ELSE Min(k, len)

Slice(tokens, from, to) ==
  SubSeq(tokens, RelativeIndex(from, Len(tokens)) + 1, RelativeIndex(to, Len(tokens)))

MakeWindow(windowTokens, i) ==
  [text |-> Join(windowTokens), startIndex |-> i, endIndex |-> i + Len(windowTokens)]

\* The branch of lines 32-38.
ShortText(tokens, windowSize) == Len(tokens) <= windowSize

\* Variant: a trailing slice shorter than the window size is discarded.
WindowIterationFullOnly(tokens, windowSize, stride, i, windows) ==
  LET windowTokens == Slice(tokens, i, i + windowSize)
  IN IF Len(windowTokens) < windowSize
       THEN [windows |-> windows, i |-> i, stop |-> TRUE]
     ELSE LET pushed == Append(windows, MakeWindow(windowTokens, i))
          IN IF i + windowSize >= Len(tokens)
               THEN [windows |-> pushed, i |-> i, stop |-> TRUE]
               ELSE [windows |-> pushed, i |-> i + stride, stop |-> FALSE]

\* Variant: a trailing slice is pushed however short it is.
WindowIterationKeepShort(tokens, windowSize, stride, i, windows) ==
  LET windowTokens == Slice(tokens, i, i + windowSize)
      pushed == Append(windows, MakeWindow(windowTokens, i))
  IN IF i + windowSize >= Len(tokens)
       THEN [windows |-> pushed, i |-> i, stop |-> TRUE]
       ELSE [windows |-> pushed, i |-> i + stride, stop |-> FALSE]

\* Variant: the index advanced by the window size, not by the stride.
WindowIterationNoOverlap(tokens, windowSize, stride, i, windows) ==
  LET windowTokens == Slice(tokens, i, i + windowSize)
  IN IF 4 * Len(windowTokens) < windowSize
       THEN [windows |-> windows, i |-> i, stop |-> TRUE]
     ELSE LET pushed == Append(windows, MakeWindow(windowTokens, i))
          IN IF i + windowSize >= Len(tokens)
               THEN [windows |-> pushed, i |-> i, stop |-> TRUE]
               ELSE [windows |-> pushed, i |-> i + windowSize, stop |-> FALSE]

\* One pass through the body of the for loop (lines 43-59) at index i: the
\* windows after it, the index of the next pass, and whether it broke out.
WindowIteration(tokens, windowSize, stride, i, windows) ==
  LET windowTokens == Slice(tokens, i, i + windowSize)
  IN IF 4 * Len(windowTokens) < windowSize
       THEN [windows |-> windows, i |-> i, stop |-> TRUE]
     ELSE LET pushed == Append(windows, MakeWindow(windowTokens, i))
          IN IF i + windowSize >= Len(tokens)
               THEN [windows |-> pushed, i |-> i, stop |-> TRUE]
               ELSE [windows |-> pushed, i |-> i + stride, stop |-> FALSE]

\* The for loop of createSlidingWindows, from index i on (stride > 0).
RECURSIVE WindowLoop(_, _, _, _, _)
WindowLoop(tokens, windowSize, stride, i, windows) ==
  IF ~(i < Len(tokens)) THEN windows
  ELSE LET pass == WindowIteration(tokens, windowSize, stride, i, windows)
       IN IF pass.stop THEN pass.windows
          ELSE WindowLoop(tokens, windowSize, stride, pass.i, pass.windows)

createSlidingWindows(text, windowSize, overlap) ==
  LET tokens == tokenize(text)
  IN IF ShortText(tokens, windowSize)
       THEN << MakeWindow(tokens, 0) >>
       ELSE WindowLoop(tokens, windowSize, windowSize - overlap, 0, <<>>)

\* Variant: the element at the middle of the descending sort.
calculate75thPercentileMedian(values) ==
  IF Len(values) = 0 THEN 0
  ELSE IF Len(values) = 1 THEN values[1]
  ELSE LET sorted == SortSeq(values, >)
       IN sorted[(Len(sorted) \div 2) + 1]

\* Variant: the sort ascending instead of descending.
calculate75thPercentileAscending(values) ==
  IF Len(values) = 0 THEN 0
  ELSE IF Len(values) = 1 THEN values[1]
  ELSE LET sorted == SortSeq(values, <)
           index == FloorQuarter(Len(sorted))
       IN sorted[index + 1]

Descending(a, b) == a > b

calculate75thPercentile(values) ==
  IF Len(values) = 0 THEN 0
  ELSE IF Len(values) = 1 THEN values[1]
  ELSE LET sorted == SortSeq(values, Descending)
           index == FloorQuarter(Len(sorted))
       IN sorted[index + 1]

\* ------------------------------------------------------------------------
\* ml/embeddings.ts: cosineSimilarity
\* ------------------------------------------------------------------------

RECURSIVE SumOver(_, _)
SumOver(f, n) == IF n = 0 THEN 0 ELSE f[n] + SumOver(f, n - 1)

Returned(value) == [threw |-> FALSE, value |-> value]
Thrown == [threw |-> TRUE, value |-> 0]

\* Variant: vectors of different dimensions are compared on the components
\* both have.
cosineSimilarityTruncating(a, b) ==
  LET n == Min(Len(a), Len(b))
      dotProduct == SumOver([i \in 1..n |-> a[i] * b[i]], n)
      normA == SumOver([i \in 1..n |-> a[i] * a[i]], n)
      normB == SumOver([i \in 1..n |-> b[i] * b[i]], n)
      denominator == Sqrt(normA) * Sqrt(normB)
  IN IF denominator = 0 THEN Returned(0)
     ELSE Returned(Max(0, Min(SCALE, (dotProduct * SCALE) \div denominator)))

\* Variant: the quotient is returned as it is, without the clamp.
cosineSimilarityUnclamped(a, b) ==
  IF Len(a) # Len(b) THEN Thrown
  ELSE LET n == Len(a)
           dotProduct == SumOver([i \in 1..n |-> a[i] * b[i]], n)
           normA == SumOver([i \in 1..n |-> a[i] * a[i]], n)
           normB == SumOver([i \in 1..n |-> b[i] * b[i]], n)
           denominator == Sqrt(normA) * Sqrt(normB)
       IN IF denominator = 0 THEN Returned(0)
          ELSE Returned((dotProduct * SCALE) \div denominator)

\* Returned(similarity), or Thrown when the dimensions differ.
cosineSimilarity(a, b) ==
  IF Len(a) # Len(b) THEN Thrown
  ELSE LET n == Len(a)
           dotProduct == SumOver([i \in 1..n |-> a[i] * b[i]], n)
           normA == SumOver([i \in 1..n |-> a[i] * a[i]], n)
           normB == SumOver([i \in 1..n |-> b[i] * b[i]], n)
           denominator == Sqrt(normA) * Sqrt(normB)
       IN IF denominator = 0 THEN Returned(0)
          ELSE Returned(Max(0, Min(SCALE, (dotProduct * SCALE) \div denominator)))

\* ------------------------------------------------------------------------
\* Inputs
\* ------------------------------------------------------------------------

NULL == "null"

\* Words in the page texts that fill two and four windows of 512 tokens.
TwoWindowWords == 600
FourWindowWords == 1300

\* 'word '.repeat(n)
Repeat(n) == [j \in 1..(2 * n) |-> IF j % 2 = 1 THEN "w" ELSE " "]

\* The page texts a request may carry, by text id.
PageTexts ==
  << <<>>,
     <<" ", "\n">>,
     <<"W", "w", " ", " ", "w">>,
     Repeat(TwoWindowWords),
     Repeat(FourWindowWords) >>

\* The texts of direct computeEmbedding calls, by text id: '', ' ', 'w'.
DirectTexts == << <<>>, <<" ">>, <<"w">> >>

\* Direct calls of createSlidingWindows: texts of 0..MaxWords words as
\* 'w '.repeat(n), a whitespace-only text and one with mixed case and runs
\* of whitespace; window sizes from -1 and overlaps from 0 to MaxWindowSize.
MaxWords == 7
MaxWindowSize == 5
\* Windows after which a loop is no longer followed: more than any loop
\* that ends produces, which is at most one window per token.
MaxWindows == MaxWords + 1

\* test.ts line 135
HelloWorldTest ==
  <<"H", "e", "l", "l", "o", " ", "W", "o", "r", "l", "d", " ", "T", "e", "s", "t">>

WindowTexts ==
  [n \in 1..(MaxWords + 1) |-> Repeat(n - 1)]
    \o << <<" ", "\n">>, <<" ", "W", "w", "\t", " ", "w">>,
          HelloWorldTest, <<"\r", "T", "a", " ", "\f", "\n", "A", "h", "\t">> >>

WindowSizes == -1..MaxWindowSize
Overlaps == 0..MaxWindowSize

\* A message whose text field is missing.
NoText == 0

TextIds == {NoText} \cup DOMAIN PageTexts

\* Keywords are short texts; "" is the empty keyword.
KeywordText(keyword) == IF keyword = "" THEN <<>> ELSE <<"w">>

Keywords == {"gaming", "sports", "work"}

\* Unit vectors the backend may return (mean pooling, normalize: true).
Vectors == { <<10, 0, 0, 0>>, <<0, 10, 0, 0>>, <<3, 9, 3, 1>>, <<9, 3, 3, 1>> }

\* ------------------------------------------------------------------------
\* background.ts: computePageSimilarity, the pure part
\* ------------------------------------------------------------------------

WINDOW_SIZE == 512
OVERLAP == 128
BLOCK_THRESHOLD == 300
ALLOW_THRESHOLD == 550
EARLY_EXIT_THRESHOLD == 850

\* createSlidingWindows(text, 512, 128) of each page text.
PageWindows ==
  [id \in DOMAIN PageTexts |-> createSlidingWindows(PageTexts[id], WINDOW_SIZE, OVERLAP)]

NeutralResult == [blockedSimilarity |-> 0, allowedSimilarity |-> 0, shouldBlock |-> FALSE]

\* Variant: the block threshold inclusive.
ShouldBlockInclusive(blockedSimilarity, allowedSimilarity) ==
  blockedSimilarity >= BLOCK_THRESHOLD /\ allowedSimilarity < ALLOW_THRESHOLD

ShouldBlock(blockedSimilarity, allowedSimilarity) ==
  blockedSimilarity > BLOCK_THRESHOLD /\ allowedSimilarity < ALLOW_THRESHOLD

\* keywordEmbeddingCache is a plain object ({}, line 44): besides its own
\* entries, a lookup finds what Object.prototype holds under the key.
PrototypeKeys == {"constructor"}

\* The test of lines 88, 143 and 154: keywordEmbeddingCache[keyword] is truthy.
HasEntry(cache, keyword) == keyword \in DOMAIN cache \/ keyword \in PrototypeKeys

\* keywordEmbeddingCache[keyword] when truthy: the cached vector, or for a
\* prototype key the function Object, whose length is 1.
Lookup(cache, keyword) == IF keyword \in DOMAIN cache THEN cache[keyword] ELSE <<0>>

\* The loop over one keyword list (lines 140-147, 151-158): the maximum
\* similarity of the page embedding to the cached keyword vectors, from
\* keyword k on; Thrown when cosineSimilarity throws.
RECURSIVE MaxSimilarity(_, _, _, _, _)
MaxSimilarity(pageEmbedding, keywords, cache, k, maxSim) ==
  IF k > Len(keywords) THEN Returned(maxSim)
  ELSE IF ~HasEntry(cache, keywords[k])
    THEN MaxSimilarity(pageEmbedding, keywords, cache, k + 1, maxSim)
  ELSE LET similarity == cosineSimilarity(pageEmbedding, Lookup(cache, keywords[k]))
       IN IF similarity.threw THEN Thrown
          ELSE MaxSimilarity(pageEmbedding, keywords, cache, k + 1,
                             Max(maxSim, similarity.value))

\* Variant: the exit on any window above the threshold, whatever its index.
EarlyExitAnywhere(maxBlockedSim, processed, totalWindows) ==
  maxBlockedSim > EARLY_EXIT_THRESHOLD

\* Variant: the exit only past the half-way mark, not at it.
EarlyExitPastMark(maxBlockedSim, processed, totalWindows) ==
  maxBlockedSim > EARLY_EXIT_THRESHOLD /\ processed > CeilHalf(totalWindows)

EarlyExit(maxBlockedSim, processed, totalWindows) ==
  maxBlockedSim > EARLY_EXIT_THRESHOLD /\ processed >= CeilHalf(totalWindows)

\* ------------------------------------------------------------------------
\* State
\* ------------------------------------------------------------------------

VARIABLES
  model,                  \* EmbeddingModelSingleton.model: NULL or the pipeline
  isLoading,              \* EmbeddingModelSingleton.isLoading
  loadError,              \* EmbeddingModelSingleton.loadError: NULL or a message
  mlModelStatus,          \* background.ts: NULL, "loading", "ready", "error"
  mlModelError,           \* background.ts: NULL or a message
  keywordEmbeddingCache,  \* background.ts: keyword -> vector, on its keys
  pendingStorageGets,     \* chrome.storage.sync.get callbacks not yet run
  task                    \* the asynchronous calls in progress, by task id

VARIABLES
  currentState,           \* background.ts: the timer, without lastUpdateTime
  timerInterval,          \* background.ts: TRUE while the interval is armed
  blockingState,          \* background.ts: mode and site lists
  settings,               \* chrome.storage.sync 'settings'
  storedTimerState,       \* chrome.storage.local 'timerState', NULL if unset
  pendingSettingsGets,    \* callbacks of the read at line 425 not yet run
  pendingNotifications,   \* showNotification reads not yet answered, by kind
  notifications,          \* chrome.notifications.create calls, by kind
  completed,              \* history: countdowns that reached zero, by kind
  sinceReset,             \* history: no UPDATE_TIMER_STATE since a RESET_TIMER
  connectedClients,       \* number of content-script ports connected
  portMessages,           \* messages posted to the port, first in first out
  pendingTabQueries,      \* chrome.tabs.query callbacks not yet run
  tabMessages,            \* messages sent with chrome.tabs.sendMessage
  timerLoads,             \* GET_TIMER_STATE messages not yet handled
  timerReplies,           \* GET_TIMER_STATE responses in flight
  siteChecks,             \* CHECK_SITE_BLOCKED messages not yet handled
  siteReplies,            \* CHECK_SITE_BLOCKED responses in flight
  similarityChecks,       \* COMPUTE_PAGE_SIMILARITY requests unanswered
  timerState,             \* content.ts: last timer state received
  blockingOverlay,        \* content.ts: TRUE while the overlay element exists
  blockingCheckInterval,  \* content.ts: TRUE while the interval is armed
  pendingTimeouts,        \* content.ts: setTimeout callbacks not yet run
  filterList,             \* content.ts: sites subject to keyword filtering
  location                \* content.ts: window.location

provider == <<model, isLoading, loadError>>
host == <<mlModelStatus, mlModelError, keywordEmbeddingCache, pendingStorageGets>>
timer == <<currentState, timerInterval, storedTimerState, pendingSettingsGets,
           pendingNotifications, notifications, completed, sinceReset>>
channels == <<connectedClients, portMessages, pendingTabQueries, tabMessages,
              timerLoads, timerReplies, siteChecks, siteReplies, similarityChecks>>
content == <<timerState, blockingOverlay, blockingCheckInterval, pendingTimeouts,
             filterList, location>>
browser == <<timer, blockingState, settings, channels, content>>
vars == <<model, isLoading, loadError, mlModelStatus, mlModelError,
          keywordEmbeddingCache, pendingStorageGets, task, browser>>

\* Seconds of a focus session and of a break (60 and 5 in the source).
InitialTime == 1
BreakInitialTime == 1
\* Seconds that Date.now() may have advanced between two ticks.
MaxElapsed == 2
\* Countdowns that may reach zero in one behaviour.
MaxSessions == 1
\* Storage reads that may be pending at once.
MaxPending == 2
\* Messages that may be queued on one channel.
MaxQueue == 1
\* setTimeout callbacks of one kind that may be pending at once.
MaxTimeouts == 1

Kinds == {"focus", "break"}

\* lines 23-31
DefaultTimerState ==
  [isActive |-> FALSE, timeLeft |-> InitialTime, initialTime |-> InitialTime,
   breakMode |-> FALSE, breakTimeLeft |-> BreakInitialTime,
   breakInitialTime |-> BreakInitialTime]

\* lines 33-38
DefaultBlockingState ==
  [isBlocked |-> TRUE, blockedSites |-> <<>>, blockMode |-> "blacklist",
   whitelistSites |-> <<>>]

\* content.ts lines 28-36, the fields that content.ts reads.
UnloadedTimerState == [isActive |-> FALSE, breakMode |-> FALSE]

NoTimeouts == [start |-> 0, check |-> 0]

\* No page is open and nothing has happened yet.
BrowserIdle ==
  /\ currentState = DefaultTimerState
  /\ timerInterval = FALSE
  /\ blockingState = DefaultBlockingState
  /\ settings = [autoStartBreaks |-> TRUE, desktopNotifications |-> TRUE]
  /\ storedTimerState = NULL
  /\ pendingSettingsGets = 0
  /\ pendingNotifications = [k \in Kinds |-> 0]
  /\ notifications = [k \in Kinds |-> 0]
  /\ completed = [k \in Kinds |-> 0]
  /\ sinceReset = FALSE
  /\ connectedClients = 0
  /\ portMessages = <<>>
  /\ pendingTabQueries = <<>>
  /\ tabMessages = <<>>
  /\ timerLoads = 0
  /\ timerReplies = <<>>
  /\ siteChecks = <<>>
  /\ siteReplies = <<>>
  /\ similarityChecks = 0
  /\ timerState = UnloadedTimerState
  /\ blockingOverlay = FALSE
  /\ blockingCheckInterval = FALSE
  /\ pendingTimeouts = NoTimeouts
  /\ filterList = <<>>
  /\ location = [host |-> <<>>, pathname |-> <<"/">>]

\* onInstalled and onStartup each call initializeMLModel.
InitTasks == {"onInstalled", "onStartup"}
\* COMPUTE_PAGE_SIMILARITY messages being handled.
ReqTasks == {"request", "request2"}
\* precomputeKeywordEmbeddings calls: the PRECOMPUTE_KEYWORD_EMBEDDINGS
\* handler and the storage callback of initializeMLModel; a second one of
\* them may run while the first awaits the backend.
PreTasks == {"precompute", "precompute2"}
\* A caller of the provider's own interface, as test.ts is.
DirectTasks == {"direct"}
Tasks == InitTasks \cup ReqTasks \cup PreTasks \cup DirectTasks

IdleTask ==
  [pc |-> "idle", text |-> NoText, blockedKeywords |-> <<>>, allowedKeywords |-> <<>>,
   i |-> 0, blockedSimilarities |-> <<>>, allowedSimilarities |-> <<>>,
   embedCalls |-> 0, result |-> NeutralResult, caught |-> NULL,
   keywords |-> <<>>, outcome |-> NULL,
   windowSize |-> 0, overlap |-> 0, windows |-> <<>>,
   cachedKeys |-> {}, succeeded |-> {}, failed |-> {}, pageEmbedding |-> <<>>,
   keywordEmbedding |-> <<>>, similarity |-> 0, initialized |-> FALSE]

Init ==
  /\ model = NULL
  /\ isLoading = FALSE
  /\ loadError = NULL
  /\ mlModelStatus = NULL
  /\ mlModelError = NULL
  /\ keywordEmbeddingCache = <<>>
  /\ pendingStorageGets = 0
  /\ task = [t \in Tasks |-> IdleTask]
  /\ BrowserIdle

\* ------------------------------------------------------------------------
\* ml/embeddings.ts: EmbeddingModelSingleton
\* ------------------------------------------------------------------------

getStatus ==
  IF loadError # NULL THEN "error"
  ELSE IF isLoading THEN "loading"
  ELSE IF model # NULL THEN "ready"
  ELSE "loading"

getError == loadError

\* Variant: the empty-text check before the model check.
EmbedCheckEmptyFirst(mdl, text) ==
  IF TrimIsEmpty(text) THEN "EmptyInput"
  ELSE IF mdl = NULL THEN "ModelNotInitialized"
  ELSE "invoke"

\* computeEmbedding up to its await: the error thrown, or "invoke" when the
\* backend is called.
EmbedCheck(mdl, text) ==
  IF mdl = NULL THEN "ModelNotInitialized"
  ELSE IF TrimIsEmpty(text) THEN "EmptyInput"
  ELSE "invoke"

\* Variant: initialize without the test of the model handle.
InitializeEntryReloads(mdl, loading) ==
  IF loading THEN "wait"
  ELSE "load"

\* initialize up to its first await.
InitializeEntry(mdl, loading) ==
  IF mdl # NULL THEN "return"
  ELSE IF loading THEN "wait"
  ELSE "load"

\* ------------------------------------------------------------------------
\* background.ts: computePageSimilarity
\* ------------------------------------------------------------------------

\* The response is sent; err is the exception caught on the way, if any.
Respond(rec, res, err) == [rec EXCEPT !.pc = "done", !.result = res, !.caught = err]

\* Lines 168-188.
Finish(rec) ==
  LET blockedSimilarity == calculate75thPercentile(rec.blockedSimilarities)
      allowedSimilarity == calculate75thPercentile(rec.allowedSimilarities)
  IN Respond(rec, [blockedSimilarity |-> blockedSimilarity,
                   allowedSimilarity |-> allowedSimilarity,
                   shouldBlock |-> ShouldBlock(blockedSimilarity, allowedSimilarity)],
             NULL)

\* Line 137: computeEmbedding(window.text) for window idx, up to its await.
EmbedWindow(rec, idx, mdl) ==
  LET check == EmbedCheck(mdl, PageWindows[rec.text][idx].text)
      called == [rec EXCEPT !.embedCalls = @ + 1, !.i = idx]
  IN IF check = "invoke" THEN [called EXCEPT !.pc = "embed"]
     ELSE Respond(called, NeutralResult, check)

\* Variant: no readiness check before the windows are processed.
ProcessWindowsUnchecked(rec, status, mdl) ==
  IF rec.text = NoText THEN Respond(rec, NeutralResult, "TypeError")
  ELSE IF Len(PageWindows[rec.text]) = 0 THEN Finish(rec)
  ELSE EmbedWindow(rec, 1, mdl)

\* Lines 117-137: from the readiness check to the first await of the loop.
ProcessWindows(rec, status, mdl) ==
  IF status # "ready" THEN Respond(rec, NeutralResult, NULL)
  ELSE IF rec.text = NoText THEN Respond(rec, NeutralResult, "TypeError")
  ELSE IF Len(PageWindows[rec.text]) = 0 THEN Finish(rec)
  ELSE EmbedWindow(rec, 1, mdl)

\* Lines 139-166 for the window whose embedding arrived, then the loop's
\* next iteration up to its await, or lines 168-188 when the loop ends.
AfterEmbedding(rec, pageEmbedding, cache, mdl) ==
  LET windows == PageWindows[rec.text]
      embedded == [rec EXCEPT !.pageEmbedding = pageEmbedding]
      maxBlockedSim == MaxSimilarity(pageEmbedding, rec.blockedKeywords, cache, 1, 0)
      maxAllowedSim == MaxSimilarity(pageEmbedding, rec.allowedKeywords, cache, 1, 0)
  IN IF maxBlockedSim.threw THEN Respond(embedded, NeutralResult, "DimensionMismatch")
     ELSE LET pushedBlocked ==
                [embedded EXCEPT !.blockedSimilarities = Append(@, maxBlockedSim.value)]
          IN IF maxAllowedSim.threw
               THEN Respond(pushedBlocked, NeutralResult, "DimensionMismatch")
             ELSE LET pushed ==
                        [pushedBlocked EXCEPT
                           !.allowedSimilarities = Append(@, maxAllowedSim.value)]
                  IN IF EarlyExit(maxBlockedSim.value,
                                  Len(pushed.blockedSimilarities), Len(windows))
                          \/ rec.i = Len(windows)
                       THEN Finish(pushed)
                       ELSE EmbedWindow(pushed, rec.i + 1, mdl)

\* The response of the GET_ML_STATUS handler, lines 581-586.
GetMLStatus == [status |-> mlModelStatus, error |-> mlModelError]

\* ------------------------------------------------------------------------
\* background.ts: precomputeKeywordEmbeddings
\* ------------------------------------------------------------------------

\* Keyword lists of PRECOMPUTE_KEYWORD_EMBEDDINGS messages.
KeywordLists ==
  { <<"gaming">>, <<"gaming", "work">>, <<"", "work">>, <<"constructor", "sports">> }
\* customKeywords and allowedKeywords as chrome.storage.sync holds them.
StoredKeywords == <<"gaming", "work">>

\* Variant: the loop without the test of line 88, every keyword recomputed.
RECURSIVE PrecomputeLoopRecompute(_, _, _, _)
PrecomputeLoopRecompute(rec, k, cache, mdl) ==
  IF k > Len(rec.keywords) THEN [rec EXCEPT !.pc = "done"]
  ELSE LET check == EmbedCheck(mdl, KeywordText(rec.keywords[k]))
       IN IF check = "invoke" THEN [rec EXCEPT !.pc = "embed", !.i = k]
          ELSE PrecomputeLoopRecompute([rec EXCEPT !.caught = check,
                                                   !.failed = @ \cup {rec.keywords[k]}],
                                       k + 1, cache, mdl)

\* The for loop of lines 86-96 from keyword k on, up to its next await: a
\* cached keyword is skipped, an exception of computeEmbedding is logged.
RECURSIVE PrecomputeLoop(_, _, _, _)
PrecomputeLoop(rec, k, cache, mdl) ==
  IF k > Len(rec.keywords) THEN [rec EXCEPT !.pc = "done"]
  ELSE IF HasEntry(cache, rec.keywords[k]) THEN PrecomputeLoop(rec, k + 1, cache, mdl)
  ELSE LET check == EmbedCheck(mdl, KeywordText(rec.keywords[k]))
       IN IF check = "invoke" THEN [rec EXCEPT !.pc = "embed", !.i = k]
          ELSE PrecomputeLoop([rec EXCEPT !.caught = check,
                                          !.failed = @ \cup {rec.keywords[k]}],
                              k + 1, cache, mdl)

\* Lines 78-97 up to the first await.
PrecomputeEntry(rec, status, cache, mdl) ==
  IF status # "ready" THEN [rec EXCEPT !.pc = "done", !.outcome = "skipped"]
  ELSE PrecomputeLoop([rec EXCEPT !.cachedKeys = DOMAIN cache], 1, cache, mdl)

\* ------------------------------------------------------------------------
\* Actions
\* ------------------------------------------------------------------------

\* What the caller of initializeMLModel does once it has returned.
AfterInitializeMLModel(t, rec, status, mdl) ==
  IF t \in ReqTasks THEN ProcessWindows(rec, status, mdl)
  ELSE [rec EXCEPT !.pc = "done",
                   !.outcome = IF status = "ready" THEN "resolved" ELSE "rejected"]

\* initializeMLModel, lines 49-56, with initialize up to its first await;
\* when initialize returns at once, lines 58-69 follow in the same run.
InitializeMLModel(t, rec) ==
  LET entry == InitializeEntry(model, isLoading)
  IN /\ isLoading' = (isLoading \/ entry = "load")
     /\ UNCHANGED <<model, loadError, keywordEmbeddingCache>>
     /\ IF entry = "return"
          THEN /\ mlModelStatus' = "ready"
               /\ mlModelError' = NULL
               /\ pendingStorageGets' = pendingStorageGets + 1
               /\ task' = [task EXCEPT ![t] = AfterInitializeMLModel(t, rec, "ready", model)]
          ELSE /\ mlModelStatus' = "loading"
               /\ UNCHANGED <<mlModelError, pendingStorageGets>>
               /\ task' = [task EXCEPT ![t] =
                             [rec EXCEPT !.pc = IF entry = "wait" THEN "initPoll"
                                                ELSE "initLoad"]]

\* initialize has settled for task t (ok: resolved; otherwise rejected with
\* msg): the caller's continuation, lines 58-69 or 70-74 of background.ts.
InitializeSettled(t, ok, msg) ==
  IF t \in DirectTasks
    THEN /\ UNCHANGED <<mlModelStatus, mlModelError, pendingStorageGets>>
         /\ task' = [task EXCEPT ![t] =
                       [@ EXCEPT !.pc = "done",
                                 !.outcome = IF ok THEN "resolved" ELSE "rejected"]]
    ELSE /\ mlModelStatus' = IF ok THEN "ready" ELSE "error"
         /\ mlModelError' = IF ok THEN NULL ELSE msg
         /\ pendingStorageGets' = IF ok THEN pendingStorageGets + 1 ELSE pendingStorageGets
         /\ task' = [task EXCEPT ![t] =
                       AfterInitializeMLModel(t, task[t], IF ok THEN "ready" ELSE "error",
                                              model')]

\* onInstalled / onStartup fires.
StartInitialize(t) ==
  /\ t \in InitTasks
  /\ task[t].pc = "idle"
  /\ InitializeMLModel(t, task[t])
  /\ UNCHANGED browser

\* test.ts initialize(): the provider's initialize called directly.
DirectInitialize(t) ==
  /\ t \in DirectTasks
  /\ task[t].pc = "idle"
  /\ LET entry == InitializeEntry(model, isLoading)
     IN /\ isLoading' = (isLoading \/ entry = "load")
        /\ task' = [task EXCEPT ![t] =
                      [IdleTask EXCEPT
                         !.pc = CASE entry = "return" -> "done"
                                  [] entry = "wait" -> "initPoll"
                                  [] OTHER -> "initLoad",
                         !.outcome = IF entry = "return" THEN "resolved" ELSE NULL]]
  /\ UNCHANGED <<model, loadError, host>>
  /\ UNCHANGED browser

\* pipeline(...) resolves: line 101 assigns the model, line 115 awaits the
\* warm-up inference.
PipelineResolve(t) ==
  /\ task[t].pc = "initLoad"
  /\ model' = "pipeline"
  /\ task' = [task EXCEPT ![t].pc = "initWarm"]
  /\ UNCHANGED <<isLoading, loadError, host>>
  /\ UNCHANGED browser

\* pipeline(...) rejects: catch and finally of initialize.
PipelineReject(t) ==
  /\ task[t].pc = "initLoad"
  /\ loadError' = "load failed"
  /\ isLoading' = FALSE
  /\ UNCHANGED <<model, keywordEmbeddingCache>>
  /\ InitializeSettled(t, FALSE, "load failed")
  /\ UNCHANGED browser

\* The warm-up inference resolves: lines 116-118 and finally.
WarmupResolve(t) ==
  /\ task[t].pc = "initWarm"
  /\ loadError' = NULL
  /\ isLoading' = FALSE
  /\ UNCHANGED <<model, keywordEmbeddingCache>>
  /\ InitializeSettled(t, TRUE, NULL)
  /\ UNCHANGED browser

\* The warm-up inference rejects: catch and finally of initialize.
WarmupReject(t) ==
  /\ task[t].pc = "initWarm"
  /\ loadError' = "warmup failed"
  /\ isLoading' = FALSE
  /\ UNCHANGED <<model, keywordEmbeddingCache>>
  /\ InitializeSettled(t, FALSE, "warmup failed")
  /\ UNCHANGED browser

\* The wait loop of initialize, lines 89-95, sees isLoading false and returns.
PollInitialize(t) ==
  /\ task[t].pc = "initPoll"
  /\ ~isLoading
  /\ UNCHANGED <<provider, keywordEmbeddingCache>>
  /\ InitializeSettled(t, TRUE, NULL)
  /\ UNCHANGED browser

\* A COMPUTE_PAGE_SIMILARITY message arrives: lines 105-115.
StartRequest(t, text, blockedKeywords, allowedKeywords) ==
  /\ t \in ReqTasks
  /\ task[t].pc = "idle"
  /\ LET rec == [IdleTask EXCEPT !.text = text,
                                 !.blockedKeywords = blockedKeywords,
                                 !.allowedKeywords = allowedKeywords]
     IN CASE mlModelStatus \in {NULL, "error"} ->
               InitializeMLModel(t, [rec EXCEPT !.initialized = TRUE])
          [] mlModelStatus = "loading" ->
               /\ task' = [task EXCEPT ![t] = [rec EXCEPT !.pc = "statusPoll"]]
               /\ UNCHANGED <<provider, host>>
          [] OTHER ->
               /\ task' = [task EXCEPT ![t] = ProcessWindows(rec, mlModelStatus, model)]
               /\ UNCHANGED <<provider, host>>
  /\ UNCHANGED browser

\* Variant: the wait loop is left only on the status 'ready'.
PollStatusUntilReady(t) ==
  /\ task[t].pc = "statusPoll"
  /\ mlModelStatus = "ready"
  /\ task' = [task EXCEPT ![t] = ProcessWindows(task[t], mlModelStatus, model)]
  /\ UNCHANGED <<provider, host>>
  /\ UNCHANGED browser

\* The wait loop of lines 112-114 sees a status other than 'loading'.
PollStatus(t) ==
  /\ task[t].pc = "statusPoll"
  /\ mlModelStatus # "loading"
  /\ task' = [task EXCEPT ![t] = ProcessWindows(task[t], mlModelStatus, model)]
  /\ UNCHANGED <<provider, host>>
  /\ UNCHANGED browser

\* Variant: the request caches, under each blocked keyword it did not find,
\* the embedding that arrived.
EmbeddingResolveCaching(t, pageEmbedding) ==
  /\ t \in ReqTasks
  /\ task[t].pc = "embed"
  /\ task' = [task EXCEPT ![t] =
                AfterEmbedding(task[t], pageEmbedding, keywordEmbeddingCache, model)]
  /\ keywordEmbeddingCache' =
       [k \in DOMAIN keywordEmbeddingCache
               \cup {task[t].blockedKeywords[j] : j \in 1..Len(task[t].blockedKeywords)} |->
          IF k \in DOMAIN keywordEmbeddingCache THEN keywordEmbeddingCache[k]
          ELSE pageEmbedding]
  /\ UNCHANGED <<provider, mlModelStatus, mlModelError, pendingStorageGets>>
  /\ UNCHANGED browser

\* The inference of a window resolves with pageEmbedding.
EmbeddingResolve(t, pageEmbedding) ==
  /\ t \in ReqTasks
  /\ task[t].pc = "embed"
  /\ task' = [task EXCEPT ![t] =
                AfterEmbedding(task[t], pageEmbedding, keywordEmbeddingCache, model)]
  /\ UNCHANGED <<provider, host>>
  /\ UNCHANGED browser

\* Variant: a failed inference answered with the scores pooled so far.
EmbeddingRejectPooled(t) ==
  /\ t \in ReqTasks
  /\ task[t].pc = "embed"
  /\ task' = [task EXCEPT ![t] = [Finish(task[t]) EXCEPT !.caught = "InferenceError"]]
  /\ UNCHANGED <<provider, host>>
  /\ UNCHANGED browser

\* The inference of a window rejects: lines 149-152, then 189-196.
EmbeddingReject(t) ==
  /\ t \in ReqTasks
  /\ task[t].pc = "embed"
  /\ task' = [task EXCEPT ![t] = Respond(task[t], NeutralResult, "InferenceError")]
  /\ UNCHANGED <<provider, host>>
  /\ UNCHANGED browser

\* The sender takes the response; the task id is free for the next message.
TakeResponse(t) ==
  /\ t \notin InitTasks
  /\ task[t].pc = "done"
  /\ task' = [task EXCEPT ![t] = IdleTask]
  /\ UNCHANGED <<provider, host>>
  /\ UNCHANGED browser

\* A PRECOMPUTE_KEYWORD_EMBEDDINGS message arrives.
StartPrecompute(t, keywords) ==
  /\ t \in PreTasks
  /\ task[t].pc = "idle"
  /\ task' = [task EXCEPT ![t] =
                PrecomputeEntry([IdleTask EXCEPT !.keywords = keywords],
                                mlModelStatus, keywordEmbeddingCache, model)]
  /\ UNCHANGED <<provider, host>>
  /\ UNCHANGED browser

\* The chrome.storage.sync.get callback of lines 63-69 runs.
StorageCallback(t) ==
  /\ t \in PreTasks
  /\ task[t].pc = "idle"
  /\ pendingStorageGets > 0
  /\ pendingStorageGets' = pendingStorageGets - 1
  /\ task' = [task EXCEPT ![t] =
                PrecomputeEntry([IdleTask EXCEPT !.keywords = StoredKeywords],
                                mlModelStatus, keywordEmbeddingCache, model)]
  /\ UNCHANGED <<provider, mlModelStatus, mlModelError, keywordEmbeddingCache>>
  /\ UNCHANGED browser

\* The inference of a keyword resolves: lines 90-91, then the loop goes on.
PrecomputeResolve(t, embedding) ==
  /\ t \in PreTasks
  /\ task[t].pc = "embed"
  /\ LET keyword == task[t].keywords[task[t].i]
         cache == [kw \in DOMAIN keywordEmbeddingCache \cup {keyword} |->
                     IF kw = keyword THEN embedding ELSE keywordEmbeddingCache[kw]]
     IN /\ keywordEmbeddingCache' = cache
        /\ task' = [task EXCEPT ![t] =
                      PrecomputeLoop([task[t] EXCEPT !.succeeded = @ \cup {keyword}],
                                     task[t].i + 1, cache, model)]
  /\ UNCHANGED <<provider, mlModelStatus, mlModelError, pendingStorageGets>>
  /\ UNCHANGED browser

\* Variant: a failed inference ends the batch.
PrecomputeRejectAborts(t) ==
  /\ t \in PreTasks
  /\ task[t].pc = "embed"
  /\ task' = [task EXCEPT ![t] =
                [@ EXCEPT !.pc = "done", !.caught = "InferenceError",
                          !.failed = @ \cup {task[t].keywords[task[t].i]}]]
  /\ UNCHANGED <<provider, host>>
  /\ UNCHANGED browser

\* The inference of a keyword rejects: lines 93-95, then the loop goes on.
PrecomputeReject(t) ==
  /\ t \in PreTasks
  /\ task[t].pc = "embed"
  /\ task' = [task EXCEPT ![t] =
                PrecomputeLoop([task[t] EXCEPT
                                  !.caught = "InferenceError",
                                  !.failed = @ \cup {task[t].keywords[task[t].i]}],
                               task[t].i + 1, keywordEmbeddingCache, model)]
  /\ UNCHANGED <<provider, host>>
  /\ UNCHANGED browser

\* test.ts: computeEmbedding called directly on the provider.
DirectEmbed(t, id) ==
  /\ t \in DirectTasks
  /\ task[t].pc = "idle"
  /\ LET check == EmbedCheck(model, DirectTexts[id])
     IN task' = [task EXCEPT ![t] =
                   [IdleTask EXCEPT !.pc = IF check = "invoke" THEN "embed" ELSE "done",
                                    !.text = id,
                                    !.embedCalls = 1,
                                    !.outcome = check]]
  /\ UNCHANGED <<provider, host>>
  /\ UNCHANGED browser

\* test.ts: cosineSimilarity called directly on two vectors.
DirectCosine(t, a, b) ==
  /\ t \in DirectTasks
  /\ task[t].pc = "idle"
  /\ LET sim == cosineSimilarity(a, b)
     IN task' = [task EXCEPT ![t] =
                   [IdleTask EXCEPT !.pc = "done",
                                    !.pageEmbedding = a,
                                    !.keywordEmbedding = b,
                                    !.similarity = sim.value,
                                    !.outcome = IF sim.threw THEN "DimensionMismatch"
                                                ELSE "similarity"]]
  /\ UNCHANGED <<provider, host>>
  /\ UNCHANGED browser

\* calculate75thPercentile called directly on a score list: the value
\* returned, and the caller's list before and after the call (the sort of
\* line 87 works on a copy).
DirectPercentile(t, values) ==
  /\ t \in DirectTasks
  /\ task[t].pc = "idle"
  /\ task' = [task EXCEPT ![t] =
                [IdleTask EXCEPT !.pc = "done",
                                 !.outcome = "percentile",
                                 !.allowedSimilarities = values,
                                 !.blockedSimilarities = values,
                                 !.similarity = calculate75thPercentile(values)]]
  /\ UNCHANGED <<provider, host>>
  /\ UNCHANGED browser

\* The inference of a direct call settles.
DirectEmbedSettle(t, ok) ==
  /\ t \in DirectTasks
  /\ task[t].pc = "embed"
  /\ task' = [task EXCEPT ![t] =
                [@ EXCEPT !.pc = "done",
                          !.outcome = IF ok THEN "embedding" ELSE "InferenceError"]]
  /\ UNCHANGED <<provider, host>>
  /\ UNCHANGED browser

\* test.ts: createSlidingWindows(text, windowSize, overlap) called directly,
\* lines 28-38 and the loop's initialisation.
StartWindows(t, id, windowSize, overlap) ==
  /\ t \in DirectTasks
  /\ task[t].pc = "idle"
  /\ LET tokens == tokenize(WindowTexts[id])
         call == [IdleTask EXCEPT !.text = id, !.windowSize = windowSize,
                                  !.overlap = overlap]
     IN task' = [task EXCEPT ![t] =
                   IF ShortText(tokens, windowSize)
                     THEN [call EXCEPT !.pc = "done", !.outcome = "windows",
                                       !.windows = << MakeWindow(tokens, 0) >>]
                     ELSE [call EXCEPT !.pc = "windowLoop", !.i = 0]]
  /\ UNCHANGED <<provider, host>>
  /\ UNCHANGED browser

\* The loop's condition and one pass through its body, lines 42-60; line 62
\* when the loop ends.
WindowStep(t) ==
  /\ t \in DirectTasks
  /\ task[t].pc = "windowLoop"
  /\ Len(task[t].windows) < MaxWindows
  /\ LET tokens == tokenize(WindowTexts[task[t].text])
         pass == WindowIteration(tokens, task[t].windowSize,
                                 task[t].windowSize - task[t].overlap,
                                 task[t].i, task[t].windows)
     IN task' = [task EXCEPT ![t] =
                   IF ~(task[t].i < Len(tokens))
                     THEN [@ EXCEPT !.pc = "done", !.outcome = "windows"]
                   ELSE IF pass.stop
                     THEN [@ EXCEPT !.pc = "done", !.outcome = "windows",
                                    !.windows = pass.windows]
                     ELSE [@ EXCEPT !.i = pass.i, !.windows = pass.windows]]
  /\ UNCHANGED <<provider, host>>
  /\ UNCHANGED browser

\* ------------------------------------------------------------------------
\* background.ts: timer, site blocking, notifications
\* ------------------------------------------------------------------------

\* String.prototype.includes
Includes(s, sub) ==
  \E i \in 0..(Len(s) - Len(sub)) : SubSeq(s, i + 1, i + Len(sub)) = sub

\* new URL(url).hostname: the host of the URL in lower case.
Hostname(url) == ToLowerCase(url.host)

\* The test of lines 368-370 and 374-376, and of content.ts line 114.
SiteMatches(hostname, site) == Includes(hostname, site) \/ Includes(site, hostname)

\* Array.prototype.some over a list of sites.
SomeSiteMatches(hostname, sites) ==
  \E k \in 1..Len(sites) : SiteMatches(hostname, sites[k])

\* Variant: blocking goes on during a break.
shouldBlockSiteInBreak(url, state, blocking) ==
  IF ~state.isActive THEN FALSE
  ELSE IF blocking.blockMode = "whitelist"
    THEN ~SomeSiteMatches(Hostname(url), blocking.whitelistSites)
    ELSE SomeSiteMatches(Hostname(url), blocking.blockedSites)

shouldBlockSite(url, state, blocking) ==
  IF ~state.isActive \/ state.breakMode THEN FALSE
  ELSE IF blocking.blockMode = "whitelist"
    THEN ~SomeSiteMatches(Hostname(url), blocking.whitelistSites)
    ELSE SomeSiteMatches(Hostname(url), blocking.blockedSites)

\* { ...currentState, ...message.state }
Merge(state, updates) ==
  [f \in DOMAIN state |-> IF f \in DOMAIN updates THEN updates[f] ELSE state[f]]

\* Of the timer state a message carries, the fields that content.ts reads.
TimerFields(state) == [isActive |-> state.isActive, breakMode |-> state.breakMode]

TimerUpdate(state) == [type |-> "TIMER_UPDATE", state |-> TimerFields(state)]
BlockingUpdate(state) == [type |-> "BLOCKING_UPDATE", state |-> state]

\* Room on the channels for one more broadcast.
CanBroadcast ==
  \/ connectedClients = 0
  \/ /\ Len(portMessages) < MaxQueue
     /\ Len(pendingTabQueries) + Len(tabMessages) < MaxQueue

\* broadcastTimerState and broadcastBlockingState: a message to every port,
\* and a chrome.tabs.query whose callback sends to every tab.
Broadcast(message) ==
  /\ portMessages' = IF connectedClients > 0 THEN Append(portMessages, message)
                     ELSE portMessages
  /\ pendingTabQueries' = IF connectedClients > 0
                            THEN Append(pendingTabQueries, message.type)
                            ELSE pendingTabQueries

\* The callback of chrome.tabs.query, lines 318-326 and 341-349: it sends the
\* state as it is when the callback runs.
TabQueryCallback ==
  /\ pendingTabQueries # <<>>
  /\ pendingTabQueries' = Tail(pendingTabQueries)
  /\ tabMessages' = Append(tabMessages,
                           IF Head(pendingTabQueries) = "TIMER_UPDATE"
                             THEN TimerUpdate(currentState)
                             ELSE BlockingUpdate(blockingState))
  /\ UNCHANGED <<timer, blockingState, settings, connectedClients, portMessages,
                 timerLoads, timerReplies, siteChecks, siteReplies,
                 similarityChecks, content>>
  /\ UNCHANGED <<provider, host, task>>

\* updateTimer, lines 382-466, after the state was replaced by next.
UpdateTimer(next) ==
  /\ currentState' = next
  /\ timerInterval' = next.isActive
  /\ storedTimerState' = next
  /\ IF next.isActive
       THEN UNCHANGED <<portMessages, pendingTabQueries>>
       ELSE Broadcast(TimerUpdate(next))

\* UPDATE_TIMER_STATE, lines 489-495.
UpdateTimerState(updates) ==
  /\ CanBroadcast
  /\ updates.isActive =>
       completed["focus"] + completed["break"] < MaxSessions
  /\ UpdateTimer(Merge(currentState, updates))
  /\ sinceReset' = FALSE
  /\ UNCHANGED <<pendingSettingsGets, pendingNotifications, notifications,
                 completed, blockingState, settings, connectedClients,
                 tabMessages, timerLoads, timerReplies, siteChecks, siteReplies,
                 similarityChecks, content>>
  /\ UNCHANGED <<provider, host, task>>

\* RESET_TIMER, lines 497-510.
ResetTimer ==
  /\ CanBroadcast
  /\ UpdateTimer([isActive |-> FALSE,
                  timeLeft |-> currentState.initialTime,
                  initialTime |-> currentState.initialTime,
                  breakMode |-> FALSE,
                  breakTimeLeft |-> currentState.breakInitialTime,
                  breakInitialTime |-> currentState.breakInitialTime])
  /\ sinceReset' = TRUE
  /\ UNCHANGED <<pendingSettingsGets, pendingNotifications, notifications,
                 completed, blockingState, settings, connectedClients,
                 tabMessages, timerLoads, timerReplies, siteChecks, siteReplies,
                 similarityChecks, content>>
  /\ UNCHANGED <<provider, host, task>>

\* Variant: the end of the break is neither saved nor broadcast.
TickBreakSilent(elapsedSeconds) ==
  LET left == IF currentState.breakTimeLeft > 0
                THEN Max(0, currentState.breakTimeLeft - elapsedSeconds)
                ELSE currentState.breakTimeLeft
      next == IF left <= 0
                THEN [currentState EXCEPT
                        !.isActive = FALSE, !.breakMode = FALSE,
                        !.breakTimeLeft = currentState.breakInitialTime,
                        !.timeLeft = currentState.initialTime]
                ELSE [currentState EXCEPT !.breakTimeLeft = left]
  IN /\ currentState' = next
     /\ timerInterval' = (left > 0)
     /\ pendingNotifications' =
          IF left <= 0 THEN [pendingNotifications EXCEPT !["break"] = @ + 1]
          ELSE pendingNotifications
     /\ completed' = IF left <= 0 THEN [completed EXCEPT !["break"] = @ + 1]
                     ELSE completed
     /\ IF left <= 0
          THEN UNCHANGED <<storedTimerState, portMessages, pendingTabQueries>>
          ELSE /\ storedTimerState' = next
               /\ Broadcast(TimerUpdate(next))
     /\ UNCHANGED pendingSettingsGets

\* The interval callback in break mode, lines 395-416 and 458-460.
TickBreak(elapsedSeconds) ==
  LET left == IF currentState.breakTimeLeft > 0
                THEN Max(0, currentState.breakTimeLeft - elapsedSeconds)
                ELSE currentState.breakTimeLeft
      next == IF left <= 0
                THEN [currentState EXCEPT
                        !.isActive = FALSE, !.breakMode = FALSE,
                        !.breakTimeLeft = currentState.breakInitialTime,
                        !.timeLeft = currentState.initialTime]
                ELSE [currentState EXCEPT !.breakTimeLeft = left]
  IN /\ currentState' = next
     /\ timerInterval' = (left > 0)
     /\ pendingNotifications' =
          IF left <= 0 THEN [pendingNotifications EXCEPT !["break"] = @ + 1]
          ELSE pendingNotifications
     /\ completed' = IF left <= 0 THEN [completed EXCEPT !["break"] = @ + 1]
                     ELSE completed
     /\ storedTimerState' = next
     /\ Broadcast(TimerUpdate(next))
     /\ UNCHANGED pendingSettingsGets

\* Variant: the countdown is not held at zero.
TickFocusUnclamped(elapsedSeconds) ==
  LET left == currentState.timeLeft - elapsedSeconds
      next == [currentState EXCEPT !.timeLeft = left]
  IN /\ currentState' = next
     /\ completed' = IF currentState.timeLeft > 0 /\ left <= 0
                       THEN [completed EXCEPT !["focus"] = @ + 1]
                       ELSE completed
     /\ IF left <= 0
          THEN /\ pendingSettingsGets < MaxPending
               /\ pendingSettingsGets' = pendingSettingsGets + 1
               /\ UNCHANGED <<storedTimerState, portMessages, pendingTabQueries>>
          ELSE /\ storedTimerState' = next
               /\ Broadcast(TimerUpdate(next))
               /\ UNCHANGED pendingSettingsGets
     /\ UNCHANGED <<timerInterval, pendingNotifications>>

\* The interval callback in focus mode, lines 417-460.
TickFocus(elapsedSeconds) ==
  LET left == IF currentState.timeLeft > 0
                THEN Max(0, currentState.timeLeft - elapsedSeconds)
                ELSE currentState.timeLeft
      next == [currentState EXCEPT !.timeLeft = left]
  IN /\ currentState' = next
     /\ completed' = IF currentState.timeLeft > 0 /\ left <= 0
                       THEN [completed EXCEPT !["focus"] = @ + 1]
                       ELSE completed
     /\ IF left <= 0
          THEN /\ pendingSettingsGets < MaxPending
               /\ pendingSettingsGets' = pendingSettingsGets + 1
               /\ UNCHANGED <<storedTimerState, portMessages, pendingTabQueries>>
          ELSE /\ storedTimerState' = next
               /\ Broadcast(TimerUpdate(next))
               /\ UNCHANGED pendingSettingsGets
     /\ UNCHANGED <<timerInterval, pendingNotifications>>

\* The interval callback of updateTimer fires, lines 389-461.
Tick(elapsedSeconds) ==
  /\ timerInterval
  /\ CanBroadcast
  /\ IF elapsedSeconds <= 0
       THEN UNCHANGED <<currentState, timerInterval, storedTimerState,
                        pendingSettingsGets, pendingNotifications, completed,
                        portMessages, pendingTabQueries>>
       ELSE IF currentState.breakMode
         THEN TickBreak(elapsedSeconds)
         ELSE TickFocus(elapsedSeconds)
  /\ UNCHANGED <<notifications, sinceReset, blockingState, settings, connectedClients,
                 tabMessages, timerLoads, timerReplies, siteChecks, siteReplies,
                 similarityChecks, content>>
  /\ UNCHANGED <<provider, host, task>>

\* The callback of the settings read of line 425 runs, lines 426-452.
SettingsCallback ==
  /\ pendingSettingsGets > 0
  /\ CanBroadcast
  /\ pendingSettingsGets' = pendingSettingsGets - 1
  /\ LET startBreak == settings.autoStartBreaks /\ currentState.breakInitialTime > 0
         next == IF startBreak
                   THEN [currentState EXCEPT
                           !.breakMode = TRUE,
                           !.breakTimeLeft = currentState.breakInitialTime]
                   ELSE [currentState EXCEPT
                           !.isActive = FALSE,
                           !.timeLeft = currentState.initialTime]
     IN /\ currentState' = next
        /\ timerInterval' = (startBreak /\ timerInterval)
        /\ storedTimerState' = next
        /\ Broadcast(TimerUpdate(next))
  /\ pendingNotifications' = [pendingNotifications EXCEPT !["focus"] = @ + 1]
  /\ UNCHANGED <<notifications, completed, sinceReset, blockingState, settings,
                 connectedClients, tabMessages, timerLoads, timerReplies,
                 siteChecks, siteReplies, similarityChecks, content>>
  /\ UNCHANGED <<provider, host, task>>

\* The callback of showNotification's settings read runs, lines 242-276.
NotificationCallback(kind) ==
  /\ pendingNotifications[kind] > 0
  /\ pendingNotifications' = [pendingNotifications EXCEPT ![kind] = @ - 1]
  /\ notifications' = IF settings.desktopNotifications
                        THEN [notifications EXCEPT ![kind] = @ + 1]
                        ELSE notifications
  /\ UNCHANGED <<currentState, timerInterval, storedTimerState,
                 pendingSettingsGets, completed, sinceReset, blockingState, settings,
                 channels, content>>
  /\ UNCHANGED <<provider, host, task>>

\* GET_TIMER_STATE, lines 485-487.
GetTimerState ==
  /\ timerLoads > 0
  /\ timerLoads' = timerLoads - 1
  /\ timerReplies' = Append(timerReplies, TimerFields(currentState))
  /\ UNCHANGED <<timer, blockingState, settings, connectedClients, portMessages,
                 pendingTabQueries, tabMessages, siteChecks, siteReplies,
                 similarityChecks, content>>
  /\ UNCHANGED <<provider, host, task>>

\* CHECK_SITE_BLOCKED, lines 566-569.
CheckSiteBlocked ==
  /\ siteChecks # <<>>
  /\ siteChecks' = Tail(siteChecks)
  /\ siteReplies' = Append(siteReplies,
                           shouldBlockSite(Head(siteChecks), currentState,
                                           blockingState))
  /\ UNCHANGED <<timer, blockingState, settings, connectedClients, portMessages,
                 pendingTabQueries, tabMessages, timerLoads, timerReplies,
                 similarityChecks, content>>
  /\ UNCHANGED <<provider, host, task>>

\* ------------------------------------------------------------------------
\* content.ts
\* ------------------------------------------------------------------------

\* startBlockingCheck, lines 312-328, from the timeouts pending before it.
StartBlockingCheck(timeouts) ==
  /\ timeouts["check"] < MaxTimeouts
  /\ blockingCheckInterval' = TRUE
  /\ pendingTimeouts' = [timeouts EXCEPT !["check"] = @ + 1]

\* shouldStopChecking, lines 294-310.
shouldStopChecking(hidden) ==
  blockingOverlay \/ ~timerState.isActive \/ timerState.breakMode \/ hidden

\* checkAndApplyBlocking_helper and checkAndApplyBlocking up to the message,
\* lines 331-344 and 84-106.
CheckAndApplyBlockingHelper(hidden) ==
  IF shouldStopChecking(hidden)
    THEN /\ blockingCheckInterval' = FALSE
         /\ UNCHANGED <<blockingOverlay, siteChecks>>
  ELSE IF ~timerState.isActive \/ timerState.breakMode
    THEN /\ blockingOverlay' = FALSE
         /\ UNCHANGED <<blockingCheckInterval, siteChecks>>
    ELSE /\ Len(siteChecks) + Len(siteReplies) < MaxQueue
         /\ siteChecks' = Append(siteChecks, location)
         /\ UNCHANGED <<blockingOverlay, blockingCheckInterval>>

\* The listeners of lines 219-247 and 250-282 on one message.
OnMessage(message) ==
  IF message.type = "BLOCKING_UPDATE"
    THEN /\ StartBlockingCheck(pendingTimeouts)
         /\ UNCHANGED <<timerState, blockingOverlay>>
    ELSE /\ timerState' = message.state
         /\ IF timerState.isActive /\ ~message.state.isActive /\ blockingOverlay
              THEN /\ blockingOverlay' = FALSE
                   /\ blockingCheckInterval' = FALSE
                   /\ UNCHANGED pendingTimeouts
            ELSE IF ~timerState.isActive /\ message.state.isActive
              THEN /\ pendingTimeouts["start"] < MaxTimeouts
                   /\ pendingTimeouts' = [pendingTimeouts EXCEPT !["start"] = @ + 1]
                   /\ UNCHANGED <<blockingOverlay, blockingCheckInterval>>
              ELSE UNCHANGED <<blockingOverlay, blockingCheckInterval,
                               pendingTimeouts>>

\* A message posted to the port arrives.
PortMessage ==
  /\ portMessages # <<>>
  /\ portMessages' = Tail(portMessages)
  /\ OnMessage(Head(portMessages))
  /\ UNCHANGED <<timer, blockingState, settings, connectedClients,
                 pendingTabQueries, tabMessages, timerLoads, timerReplies,
                 siteChecks, siteReplies, similarityChecks, filterList, location>>
  /\ UNCHANGED <<provider, host, task>>

\* A message sent with chrome.tabs.sendMessage arrives.
TabMessage ==
  /\ tabMessages # <<>>
  /\ tabMessages' = Tail(tabMessages)
  /\ OnMessage(Head(tabMessages))
  /\ UNCHANGED <<timer, blockingState, settings, connectedClients, portMessages,
                 pendingTabQueries, timerLoads, timerReplies, siteChecks,
                 siteReplies, similarityChecks, filterList, location>>
  /\ UNCHANGED <<provider, host, task>>

\* The response to GET_TIMER_STATE arrives, lines 54-58.
TimerReply ==
  /\ timerReplies # <<>>
  /\ timerReplies' = Tail(timerReplies)
  /\ timerState' = Head(timerReplies)
  /\ UNCHANGED <<timer, blockingState, settings, connectedClients, portMessages,
                 pendingTabQueries, tabMessages, timerLoads, siteChecks,
                 siteReplies, similarityChecks, blockingOverlay,
                 blockingCheckInterval, pendingTimeouts, filterList, location>>
  /\ UNCHANGED <<provider, host, task>>

\* A timeout set at lines 242 or 276 fires: startBlockingCheck.
StartTimeout ==
  /\ pendingTimeouts["start"] > 0
  /\ StartBlockingCheck([pendingTimeouts EXCEPT !["start"] = @ - 1])
  /\ UNCHANGED <<timer, blockingState, settings, channels, timerState,
                 blockingOverlay, filterList, location>>
  /\ UNCHANGED <<provider, host, task>>

\* The timeout set at line 318 fires: checkAndApplyBlocking_helper.
CheckTimeout(hidden) ==
  /\ pendingTimeouts["check"] > 0
  /\ pendingTimeouts' = [pendingTimeouts EXCEPT !["check"] = @ - 1]
  /\ CheckAndApplyBlockingHelper(hidden)
  /\ UNCHANGED <<timer, blockingState, settings, connectedClients, portMessages,
                 pendingTabQueries, tabMessages, timerLoads, timerReplies,
                 siteReplies, similarityChecks, timerState, filterList, location>>
  /\ UNCHANGED <<provider, host, task>>

\* The interval set at line 323 fires: checkAndApplyBlocking_helper.
CheckInterval(hidden) ==
  /\ blockingCheckInterval
  /\ CheckAndApplyBlockingHelper(hidden)
  /\ UNCHANGED <<timer, blockingState, settings, connectedClients, portMessages,
                 pendingTabQueries, tabMessages, timerLoads, timerReplies,
                 siteReplies, similarityChecks, timerState, pendingTimeouts,
                 filterList, location>>
  /\ UNCHANGED <<provider, host, task>>

\* The response to CHECK_SITE_BLOCKED arrives, lines 106-157.
SiteReply ==
  /\ siteReplies # <<>>
  /\ siteReplies' = Tail(siteReplies)
  /\ LET matchesFilterList ==
           SomeSiteMatches(Hostname(location), filterList)
     IN IF Head(siteReplies)
          THEN /\ blockingOverlay' = TRUE
               /\ UNCHANGED similarityChecks
        ELSE IF matchesFilterList
          THEN /\ similarityChecks < MaxQueue
               /\ similarityChecks' = similarityChecks + 1
               /\ UNCHANGED blockingOverlay
          ELSE /\ blockingOverlay' = FALSE
               /\ UNCHANGED similarityChecks
  /\ UNCHANGED <<timer, blockingState, settings, connectedClients, portMessages,
                 pendingTabQueries, tabMessages, timerLoads, timerReplies,
                 siteChecks, timerState, blockingCheckInterval, pendingTimeouts,
                 filterList, location>>
  /\ UNCHANGED <<provider, host, task>>

\* The response to COMPUTE_PAGE_SIMILARITY arrives, lines 126-149: none, or
\* one with shouldBlock true or false.
SimilarityReply(response) ==
  /\ similarityChecks > 0
  /\ similarityChecks' = similarityChecks - 1
  /\ blockingOverlay' = (response = "block")
  /\ UNCHANGED <<timer, blockingState, settings, connectedClients, portMessages,
                 pendingTabQueries, tabMessages, timerLoads, timerReplies,
                 siteChecks, siteReplies, timerState, blockingCheckInterval,
                 pendingTimeouts, filterList, location>>
  /\ UNCHANGED <<provider, host, task>>

\* ------------------------------------------------------------------------
\* Specification
\* ------------------------------------------------------------------------

\* Inputs of the requests.
BlockedLists == { <<"gaming">>, <<"sports", "gaming">>, <<"gaming", "constructor">> }
AllowedLists == { <<"work">> }

\* The steps of initialize and of initializeMLModel.
Lifecycle ==
  \/ \E t \in InitTasks : StartInitialize(t)
  \/ \E t \in Tasks : PipelineResolve(t)
  \/ \E t \in Tasks : PipelineReject(t)
  \/ \E t \in Tasks : WarmupResolve(t)
  \/ \E t \in Tasks : WarmupReject(t)
  \/ \E t \in Tasks : PollInitialize(t)

\* The steps of computePageSimilarity, for page texts, blocked keyword lists
\* and backend outputs drawn from the given sets.
Requests(tasks, texts, blockedLists, vectors) ==
  \/ \E t \in tasks, text \in texts, bk \in blockedLists, ak \in AllowedLists :
       StartRequest(t, text, bk, ak)
  \/ \E t \in tasks, v \in vectors : EmbeddingResolve(t, v)
  \/ \E t \in tasks : EmbeddingReject(t)
  \/ \E t \in tasks : TakeResponse(t)

\* The steps of precomputeKeywordEmbeddings.
Precomputes(tasks, lists, vectors) ==
  \/ \E t \in tasks, keywords \in lists : StartPrecompute(t, keywords)
  \/ \E t \in tasks : StorageCallback(t)
  \/ \E t \in tasks, v \in vectors : PrecomputeResolve(t, v)
  \/ \E t \in tasks : PrecomputeReject(t)
  \/ \E t \in tasks : TakeResponse(t)

\* The steps of a direct caller of the provider.
Directs ==
  \/ \E t \in DirectTasks : DirectInitialize(t)
  \/ \E t \in DirectTasks, id \in DOMAIN DirectTexts : DirectEmbed(t, id)
  \/ \E t \in DirectTasks, ok \in BOOLEAN : DirectEmbedSettle(t, ok)
  \/ \E t \in DirectTasks : TakeResponse(t)

\* The background service worker: its initializations, similarity requests
\* and keyword precomputations, interleaved.
Next ==
  \/ Lifecycle
  \/ Requests({"request"}, {NoText, 1, 3, 4}, {<<"gaming">>},
              {<<10, 0, 0, 0>>, <<3, 9, 3, 1>>})
  \/ \E t \in {"request"} : PollStatus(t)
  \/ Precomputes({"precompute"}, {<<"", "gaming">>}, {<<10, 0, 0, 0>>, <<0, 10, 0, 0>>})

Spec == Init /\ [][Next]_vars

\* The provider under its callers: initializeMLModel and direct calls.
ProviderNext == Lifecycle \/ Directs

ProviderSpec == Init /\ [][ProviderNext]_vars

\* The tokenizer under a direct caller.
WindowNext ==
  \/ \E t \in DirectTasks, id \in DOMAIN WindowTexts, windowSize \in WindowSizes,
        overlap \in Overlaps : StartWindows(t, id, windowSize, overlap)
  \/ \E t \in DirectTasks : WindowStep(t)
  \/ \E t \in DirectTasks : TakeResponse(t)

WindowSpec == Init /\ [][WindowNext]_vars

\* cosineSimilarity under a direct caller: unit vectors, their negations, the
\* zero vector, vectors off the unit sphere and vectors of other lengths.
TestVectors ==
  { <<10, 0, 0, 0>>, <<0, 10, 0, 0>>, <<-10, 0, 0, 0>>, <<0, -10, 0, 0>>,
    <<0, 0, 0, 0>>, <<3, 9, 3, 1>>, <<9, 3, 3, 1>>, <<-3, 9, -3, 1>>,
    <<3, 9, 3, 2>>, <<5, 0, 0, 0>>, <<10>>, <<>> }

SimilarityNext ==
  \/ \E t \in DirectTasks, a \in TestVectors, b \in TestVectors : DirectCosine(t, a, b)
  \/ \E t \in DirectTasks : TakeResponse(t)

SimilaritySpec == Init /\ [][SimilarityNext]_vars

\* calculate75thPercentile under a direct caller: every list of up to
\* MaxScores scores out of three values.
MaxScores == 5

ScoreValues == {0, 300, 900}

ScoreLists == UNION { [1..n -> ScoreValues] : n \in 0..MaxScores }

PercentileNext ==
  \/ \E t \in DirectTasks, values \in ScoreLists : DirectPercentile(t, values)
  \/ \E t \in DirectTasks : TakeResponse(t)

PercentileSpec == Init /\ [][PercentileNext]_vars

\* The aggregator once the model is ready and keywords are cached: every
\* page text and every backend output.
CacheVectors == { <<10, 0, 0, 0>>, <<0, 10, 0, 0>> }

Caches == UNION { [ks -> CacheVectors] : ks \in SUBSET Keywords }

AggInit ==
  /\ model = "pipeline"
  /\ isLoading = FALSE
  /\ loadError = NULL
  /\ mlModelStatus = "ready"
  /\ mlModelError = NULL
  /\ keywordEmbeddingCache \in Caches
  /\ pendingStorageGets = 0
  /\ task = [t \in Tasks |-> IdleTask]
  /\ BrowserIdle

AggNext == Requests({"request"}, TextIds, BlockedLists, Vectors)

AggSpec == AggInit /\ [][AggNext]_vars

\* The keyword cache under precompute calls that may overlap, once the model
\* is ready: the storage callback of the initialization is still to come.
CacheInit ==
  /\ model = "pipeline"
  /\ isLoading = FALSE
  /\ loadError = NULL
  /\ mlModelStatus = "ready"
  /\ mlModelError = NULL
  /\ keywordEmbeddingCache = <<>>
  /\ pendingStorageGets = 1
  /\ task = [t \in Tasks |-> IdleTask]
  /\ BrowserIdle

CacheNext == Precomputes(PreTasks, KeywordLists, CacheVectors)

CacheSpec == CacheInit /\ [][CacheNext]_vars

\* ------------------------------------------------------------------------
\* The extension in the browser
\* ------------------------------------------------------------------------

\* The relevance engine before anything has happened.
EngineIdle ==
  /\ model = NULL
  /\ isLoading = FALSE
  /\ loadError = NULL
  /\ mlModelStatus = NULL
  /\ mlModelError = NULL
  /\ keywordEmbeddingCache = <<>>
  /\ pendingStorageGets = 0
  /\ task = [t \in Tasks |-> IdleTask]

\* What the popup and the options page send: start or pause, and a new
\* session length.
TimerUpdates ==
  { [isActive |-> b] : b \in BOOLEAN }
  \cup { [timeLeft |-> n, initialTime |-> n, isActive |-> FALSE, breakMode |-> FALSE] :
           n \in 1..InitialTime }

\* The timer of the service worker, with no page open.
TimerActions ==
  \/ \E updates \in TimerUpdates : UpdateTimerState(updates)
  \/ ResetTimer
  \/ \E elapsedSeconds \in 0..MaxElapsed : Tick(elapsedSeconds)
  \/ SettingsCallback
  \/ \E kind \in Kinds : NotificationCallback(kind)

TimerInit ==
  /\ EngineIdle
  /\ currentState = DefaultTimerState
  /\ timerInterval = FALSE
  /\ blockingState = DefaultBlockingState
  /\ settings \in [autoStartBreaks : BOOLEAN, desktopNotifications : BOOLEAN]
  /\ storedTimerState = NULL
  /\ pendingSettingsGets = 0
  /\ pendingNotifications = [k \in Kinds |-> 0]
  /\ notifications = [k \in Kinds |-> 0]
  /\ completed = [k \in Kinds |-> 0]
  /\ sinceReset = FALSE
  /\ connectedClients = 0
  /\ portMessages = <<>>
  /\ pendingTabQueries = <<>>
  /\ tabMessages = <<>>
  /\ timerLoads = 0
  /\ timerReplies = <<>>
  /\ siteChecks = <<>>
  /\ siteReplies = <<>>
  /\ similarityChecks = 0
  /\ timerState = UnloadedTimerState
  /\ blockingOverlay = FALSE
  /\ blockingCheckInterval = FALSE
  /\ pendingTimeouts = NoTimeouts
  /\ filterList = <<>>
  /\ location = [host |-> <<>>, pathname |-> <<"/">>]

TimerNext == TimerActions

TimerSpec == TimerInit /\ [][TimerNext]_vars

\* Sites, and the pages a tab may show.
SiteA == <<"a", ".", "c">>
SiteB == <<"b", ".", "c">>
Pages ==
  { [host |-> <<"m", ".", "A", ".", "c">>, pathname |-> <<"/">>],
    [host |-> SiteB, pathname |-> <<"/", "a", ".", "c">>] }

\* A page has just loaded its content script: the port is connected, lines
\* 469-474 have posted the two states, and the script has asked for the timer
\* state (content.ts line 286).
ContentInit ==
  /\ EngineIdle
  /\ currentState = DefaultTimerState
  /\ timerInterval = FALSE
  /\ blockingState \in { [DefaultBlockingState EXCEPT !.blockedSites = <<SiteA>>,
                               !.whitelistSites = <<SiteB>>, !.blockMode = mode] :
                           mode \in {"blacklist", "whitelist"} }
  /\ settings = [autoStartBreaks |-> TRUE, desktopNotifications |-> TRUE]
  /\ storedTimerState = NULL
  /\ pendingSettingsGets = 0
  /\ pendingNotifications = [k \in Kinds |-> 0]
  /\ notifications = [k \in Kinds |-> 0]
  /\ completed = [k \in Kinds |-> 0]
  /\ sinceReset = FALSE
  /\ connectedClients = 1
  /\ portMessages = << TimerUpdate(currentState), BlockingUpdate(blockingState) >>
  /\ pendingTabQueries = <<>>
  /\ tabMessages = <<>>
  /\ timerLoads = 1
  /\ timerReplies = <<>>
  /\ siteChecks = <<>>
  /\ siteReplies = <<>>
  /\ similarityChecks = 0
  /\ timerState = UnloadedTimerState
  /\ blockingOverlay = FALSE
  /\ blockingCheckInterval = FALSE
  /\ pendingTimeouts = NoTimeouts
  /\ filterList \in { <<>>, <<SiteB>> }
  /\ location \in Pages

ContentNext ==
  \/ \E b \in BOOLEAN : UpdateTimerState([isActive |-> b])
  \/ ResetTimer
  \/ \E elapsedSeconds \in 1..MaxElapsed : Tick(elapsedSeconds)
  \/ SettingsCallback
  \/ \E kind \in Kinds : NotificationCallback(kind)
  \/ TabQueryCallback
  \/ GetTimerState
  \/ CheckSiteBlocked
  \/ PortMessage
  \/ TabMessage
  \/ TimerReply
  \/ StartTimeout
  \/ \E hidden \in BOOLEAN : CheckTimeout(hidden)
  \/ \E hidden \in BOOLEAN : CheckInterval(hidden)
  \/ SiteReply
  \/ \E response \in {"none", "block", "allow"} : SimilarityReply(response)

ContentSpec == ContentInit /\ [][ContentNext]_vars

\* Two COMPUTE_PAGE_SIMILARITY requests at a time under the initializations,
\* with the scheduling the runtime gives: a pending backend call settles, and
\* a wait loop that polls every 100 ms leaves when its condition keeps
\* becoming false.
LiveTexts == {NoText, 3}

LiveVectors == { <<10, 0, 0, 0>> }

LiveNext ==
  \/ Lifecycle
  \/ Requests(ReqTasks, LiveTexts, {<<"gaming">>}, LiveVectors)
  \/ \E t \in ReqTasks : PollStatus(t)

LiveFairness ==
  /\ \A t \in Tasks : WF_vars(PipelineResolve(t) \/ PipelineReject(t))
  /\ \A t \in Tasks : WF_vars(WarmupResolve(t) \/ WarmupReject(t))
  /\ \A t \in Tasks : SF_vars(PollInitialize(t))
  /\ \A t \in ReqTasks : SF_vars(PollStatus(t))
  /\ \A t \in ReqTasks :
       WF_vars((\E v \in LiveVectors : EmbeddingResolve(t, v)) \/ EmbeddingReject(t))

LiveSpec == Init /\ [][LiveNext]_vars /\ LiveFairness


\* ------------------------------------------------------------------------
\* Properties
\* ------------------------------------------------------------------------

Responded(t) == task[t].pc = "done"

\* C1: a request in which windowing, an embedding or a similarity computation
\* raised is answered, and answered with exactly {0, 0, false}, whatever
\* scores the earlier windows had contributed.
C1_FailOpen ==
  \A t \in ReqTasks :
    /\ task[t].pc \in {"idle", "initLoad", "initWarm", "initPoll", "statusPoll",
                       "embed", "done"}
    /\ (task[t].caught # NULL =>
          /\ Responded(t)
          /\ task[t].result = [blockedSimilarity |-> 0, allowedSimilarity |-> 0,
                               shouldBlock |-> FALSE])

\* C1 witness: the second window's inference failed after the first window
\* had scored above zero.
C1_Witness ==
  \E t \in ReqTasks :
    /\ Responded(t)
    /\ task[t].caught = "InferenceError"
    /\ task[t].i = 2
    /\ Len(task[t].blockedSimilarities) = 1
    /\ task[t].blockedSimilarities[1] > 0
    /\ task[t].result.blockedSimilarity = 0

\* The request has not yet reached the readiness check of line 118.
BeforeCheck(t) == task[t].pc \in {"idle", "initLoad", "initWarm", "initPoll", "statusPoll"}

\* C2: when a request reaches the readiness check and the status is not
\* 'ready', it is answered {0, 0, false} in that step and computeEmbedding
\* has not been called.
C2_NotReadyNeutral ==
  [][\A t \in ReqTasks :
       (BeforeCheck(t) /\ ~BeforeCheck(t)' /\ mlModelStatus' # "ready") =>
         /\ Responded(t)'
         /\ task'[t].result = [blockedSimilarity |-> 0, allowedSimilarity |-> 0,
                               shouldBlock |-> FALSE]
         /\ task'[t].embedCalls = 0]_vars

\* C2 witness: a request for a real page text answered without any embedding
\* call and without an exception, while the status is 'error'.
C2_Witness ==
  \E t \in ReqTasks :
    /\ Responded(t)
    /\ task[t].text \in DOMAIN PageTexts
    /\ task[t].caught = NULL
    /\ task[t].embedCalls = 0
    /\ mlModelStatus = "error"
    /\ task[t].result.shouldBlock = FALSE

\* C3: every response has shouldBlock exactly when blockedSimilarity > 0.30
\* and allowedSimilarity < 0.55, both strict; (0.5, 0.2) blocks, (0.5, 0.6)
\* and (0.2, 0.2) do not.
C3_Decision ==
  /\ \A t \in ReqTasks :
       Responded(t) =>
         (task[t].result.shouldBlock <=>
            (task[t].result.blockedSimilarity > 300
               /\ task[t].result.allowedSimilarity < 550))
  /\ ShouldBlock(500, 200)
  /\ ~ShouldBlock(500, 600)
  /\ ~ShouldBlock(200, 200)

\* C3 witness: a scored response whose blocked score is exactly 0.30 and
\* whose allowed score is below 0.55: not blocked.
C3_Witness ==
  \E t \in ReqTasks :
    /\ Responded(t)
    /\ task[t].caught = NULL
    /\ Len(task[t].blockedSimilarities) > 0
    /\ task[t].result.blockedSimilarity = 300
    /\ task[t].result.allowedSimilarity < 550
    /\ ~task[t].result.shouldBlock

\* Task t calls initialize in this step.
CallsInitialize(t) ==
  /\ t \in InitTasks \cup DirectTasks
  /\ task[t].pc = "idle"
  /\ \/ task'[t].pc \in {"initLoad", "initPoll"}
     \/ task'[t].pc = "done" /\ task'[t].outcome = "resolved"

\* Task t calls computeEmbedding directly in this step.
CallsComputeEmbedding(t) ==
  /\ t \in DirectTasks
  /\ task[t].pc = "idle"
  /\ task'[t].embedCalls = 1

\* The call of initialize by task t resolves (is rejected) in this step.
InitializeResolves(t) ==
  /\ t \in InitTasks \cup DirectTasks
  /\ task[t].pc \in {"idle", "initLoad", "initWarm", "initPoll"}
  /\ task'[t].pc = "done" /\ task'[t].outcome = "resolved"

InitializeRejects(t) ==
  /\ t \in InitTasks \cup DirectTasks
  /\ task[t].pc \in {"initLoad", "initWarm", "initPoll"}
  /\ task'[t].pc = "done" /\ task'[t].outcome = "rejected"

LoadsInFlight == {t \in Tasks : task[t].pc = "initLoad"}
AttemptsInFlight == {t \in Tasks : task[t].pc \in {"initLoad", "initWarm"}}

\* C4: at most one backend load is in flight, and a call of initialize made
\* while the state is Loading with an initialization in flight waits for it
\* and starts no load.
C4_SingleFlightWaits ==
  [][/\ Cardinality(LoadsInFlight') <= 1
     /\ \A t \in Tasks :
          (isLoading /\ getStatus = "loading" /\ CallsInitialize(t)) =>
            task'[t].pc = "initPoll"]_vars

\* C4, the part the code keeps: never two loads or two attempts in flight,
\* and a call made while isLoading starts no load.
C4_NoSecondLoad ==
  /\ Cardinality(LoadsInFlight) <= 1
  /\ Cardinality(AttemptsInFlight) <= 1
  /\ (isLoading <=> AttemptsInFlight # {})

\* C5: a call of initialize that resolves leaves the provider ready, and one
\* that is rejected leaves it in error with a message, for every caller.
C5_ResolvesReady ==
  [][\A t \in Tasks :
       /\ InitializeResolves(t) => getStatus' = "ready"
       /\ InitializeRejects(t) => (getStatus' = "error" /\ getError' # NULL)]_vars

\* C6: computeEmbedding called in a state other than ready fails with
\* ModelNotInitialized and the backend is not invoked.
C6_NotReadyFails ==
  [][\A t \in Tasks :
       (CallsComputeEmbedding(t) /\ getStatus # "ready") =>
         (task'[t].outcome = "ModelNotInitialized" /\ task'[t].pc = "done")]_vars

\* C7: computeEmbedding of a text that trims to nothing fails with EmptyInput
\* when the provider is ready, and with ModelNotInitialized before any
\* initialization; the backend is invoked in neither case.
C7_EmptyInput ==
  [][\A t \in Tasks :
       (CallsComputeEmbedding(t) /\ TrimIsEmpty(DirectTexts[task'[t].text])) =>
         /\ task'[t].pc = "done"
         /\ getStatus = "ready" => task'[t].outcome = "EmptyInput"
         /\ (model = NULL /\ ~isLoading /\ loadError = NULL) =>
              task'[t].outcome = "ModelNotInitialized"]_vars

\* C7 witness: on a ready provider a whitespace-only text was refused as
\* empty input.
C7_Witness ==
  \E t \in DirectTasks :
    /\ task[t].pc = "done"
    /\ task[t].embedCalls = 1
    /\ task[t].text = 2
    /\ task[t].outcome = "EmptyInput"
    /\ getStatus = "ready"

\* C8: the state read through getStatus changes only loading -> ready,
\* loading -> error and error -> loading (Uninitialized reads as loading).
C8_Transitions ==
  [][\/ getStatus' = getStatus
     \/ getStatus = "loading" /\ getStatus' \in {"ready", "error"}
     \/ getStatus = "error" /\ getStatus' = "loading"]_vars

\* C9: once a window at or beyond the ceil(total * 0.5) mark has scored a
\* blocked similarity above 0.85, it is the last window embedded: the number
\* of computeEmbedding calls of the request is that window's index.
C9_EarlyExit ==
  \A t \in ReqTasks :
    \A k \in 1..Len(task[t].blockedSimilarities) :
      (task[t].blockedSimilarities[k] > 850
         /\ 2 * k >= Len(PageWindows[task[t].text])) =>
        /\ task[t].embedCalls = k
        /\ Len(task[t].blockedSimilarities) = k
        /\ Responded(t)

\* C9 witness: of four windows the first scored above 0.85 before the mark,
\* the second at the mark, and the last two were never embedded.
C9_Witness ==
  \E t \in ReqTasks :
    /\ Responded(t)
    /\ task[t].text \in DOMAIN PageTexts
    /\ Len(PageWindows[task[t].text]) = 4
    /\ Len(task[t].blockedSimilarities) = 2
    /\ task[t].blockedSimilarities[1] > 850
    /\ task[t].blockedSimilarities[2] > 850
    /\ task[t].embedCalls = 2

\* The elements of a score list above, and not below, a value.
CountAbove(values, v) == Cardinality({j \in 1..Len(values) : values[j] > v})
CountAtLeast(values, v) == Cardinality({j \in 1..Len(values) : values[j] >= v})

\* v stands at index floor(length * 0.25) of the list in descending order.
IsPooled(values, v) ==
  IF Len(values) = 0 THEN v = 0
  ELSE /\ \E j \in 1..Len(values) : values[j] = v
       /\ CountAbove(values, v) <= Len(values) \div 4
       /\ Len(values) \div 4 < CountAtLeast(values, v)

\* C10: calculate75thPercentile is 0 on the empty list, the element of a
\* one-element list, otherwise the element at index floor(length * 0.25) in
\* descending order, 0.6 on [0.1 .. 0.8]; the two scores of a response are
\* this pooling of the per-window score lists.
C10_Pooling ==
  /\ calculate75thPercentile(<<>>) = 0
  /\ calculate75thPercentile(<<640>>) = 640
  /\ calculate75thPercentile(<<100, 200, 300, 400, 500, 600, 700, 800>>) = 600
  /\ \A t \in ReqTasks :
       (Responded(t) /\ task[t].caught = NULL) =>
         /\ IsPooled(task[t].blockedSimilarities, task[t].result.blockedSimilarity)
         /\ IsPooled(task[t].allowedSimilarities, task[t].result.allowedSimilarity)

\* C10 witness: four windows were scored and the pooled blocked score is the
\* second largest, neither the maximum nor the minimum.
C10_Witness ==
  \E t \in ReqTasks :
    /\ Responded(t)
    /\ task[t].caught = NULL
    /\ Len(task[t].blockedSimilarities) = 4
    /\ CountAbove(task[t].blockedSimilarities, task[t].result.blockedSimilarity) = 1
    /\ CountAtLeast(task[t].blockedSimilarities, task[t].result.blockedSimilarity) = 2

\* The direct call of createSlidingWindows by task t has returned.
WindowsReturned(t) == task[t].pc = "done" /\ task[t].outcome = "windows"

\* The tokens of the text of task t's call.
CallTokens(t) == tokenize(WindowTexts[task[t].text])

\* text is the given tokens separated by single spaces and nothing else.
SingleSpaced(text, tokens) ==
  /\ tokenize(text) = tokens
  /\ \A j \in 1..Len(text) : IsWhitespace(text[j]) => text[j] = " "
  /\ Len(text) = SumOver([k \in 1..Len(tokens) |-> Len(tokens[k])], Len(tokens))
                   + Max(Len(tokens) - 1, 0)

\* C11: a text of at most windowSize tokens yields exactly one window, from
\* 0 to the token count, whose text is the tokens joined by single spaces.
C11_ShortText ==
  \A t \in DirectTasks :
    (WindowsReturned(t) /\ Len(CallTokens(t)) <= task[t].windowSize) =>
      /\ Len(task[t].windows) = 1
      /\ task[t].windows[1].startIndex = 0
      /\ task[t].windows[1].endIndex = Len(CallTokens(t))
      /\ SingleSpaced(task[t].windows[1].text, CallTokens(t))

\* C11 witness: a text of exactly windowSize = 2 tokens, in mixed case with
\* runs of whitespace, came back as the one window 'ww w'.
C11_Witness ==
  \E t \in DirectTasks :
    /\ WindowsReturned(t)
    /\ task[t].windowSize = 2
    /\ WindowTexts[task[t].text] = <<" ", "W", "w", "\t", " ", "w">>
    /\ task[t].windows = << [text |-> <<"w", "w", " ", "w">>,
                             startIndex |-> 0, endIndex |-> 2] >>

\* The windows come one after the other sharing overlap tokens, there is
\* more than one, and the last ends at the token count.
OverlappingCover(windows, overlap, tokenCount) ==
  /\ Len(windows) > 1
  /\ \A k \in 1..(Len(windows) - 1) :
       windows[k + 1].startIndex = windows[k].endIndex - overlap
  /\ windows[Len(windows)].endIndex = tokenCount

\* C12 as stated: for every text of more than windowSize tokens and every
\* 0 <= overlap < windowSize, more than one window is returned, consecutive
\* windows share exactly overlap tokens and the last ends at the token count.
C12_Overlap ==
  \A t \in DirectTasks :
    (/\ WindowsReturned(t)
     /\ Len(CallTokens(t)) > task[t].windowSize
     /\ 0 <= task[t].overlap
     /\ task[t].overlap < task[t].windowSize) =>
      OverlappingCover(task[t].windows, task[t].overlap, Len(CallTokens(t)))

\* C12 amended: the same, for the configurations in which no trailing slice
\* can fall under a quarter of the window: windowSize <= 4 * (overlap + 1).
C12_OverlapNoDiscard ==
  \A t \in DirectTasks :
    (/\ WindowsReturned(t)
     /\ Len(CallTokens(t)) > task[t].windowSize
     /\ 0 <= task[t].overlap
     /\ task[t].overlap < task[t].windowSize
     /\ task[t].windowSize <= 4 * (task[t].overlap + 1)) =>
      OverlappingCover(task[t].windows, task[t].overlap, Len(CallTokens(t)))

\* C12 witness: six tokens in windows of 3 overlapping by 1 gave three
\* windows, the last one shorter: [0,3), [2,5), [4,6).
C12_Witness ==
  \E t \in DirectTasks :
    /\ WindowsReturned(t)
    /\ task[t].windowSize = 3
    /\ task[t].overlap = 1
    /\ Len(CallTokens(t)) = 6
    /\ Len(task[t].windows) = 3
    /\ task[t].windows[2].startIndex = 2
    /\ task[t].windows[3].startIndex = 4
    /\ task[t].windows[3].endIndex = 6

\* Task t calls createSlidingWindows in this step.
CallsCreateSlidingWindows(t) ==
  /\ t \in DirectTasks
  /\ task[t].pc = "idle"
  /\ \/ task'[t].pc = "windowLoop"
     \/ task'[t].pc = "done" /\ task'[t].outcome \in {"windows", "InvalidWindowConfig"}

\* C13: a call with a non-positive stride or a non-positive window size, on
\* a text of more tokens than windowSize, fails at once with
\* InvalidWindowConfig.
C13_InvalidConfigFails ==
  [][\A t \in DirectTasks :
       (/\ CallsCreateSlidingWindows(t)
        /\ Len(CallTokens(t)') > task'[t].windowSize
        /\ \/ task'[t].overlap >= task'[t].windowSize
           \/ task'[t].windowSize <= 0) =>
         (task'[t].pc = "done" /\ task'[t].outcome = "InvalidWindowConfig")]_vars

\* C13, what the code does instead: with stride 0 the loop is still running
\* after more windows than the text has tokens, all of them the same.
C13_Witness ==
  \E t \in DirectTasks :
    /\ task[t].pc = "windowLoop"
    /\ task[t].windowSize = task[t].overlap
    /\ task[t].i = 0
    /\ Len(task[t].windows) = MaxWindows
    /\ Len(task[t].windows) > Len(CallTokens(t))
    /\ \A k \in 1..Len(task[t].windows) : task[t].windows[k] = task[t].windows[1]

\* C14: every window returned, for every text and every configuration with
\* 0 <= overlap < windowSize, has startIndex < endIndex.
C14_NonEmptyWindows ==
  \A t \in DirectTasks :
    (WindowsReturned(t) /\ 0 <= task[t].overlap /\ task[t].overlap < task[t].windowSize) =>
      \A k \in 1..Len(task[t].windows) :
        task[t].windows[k].startIndex < task[t].windows[k].endIndex

\* C14, the part the code keeps: the same for the texts with a token.
C14_NonEmptyWindowsOfTokens ==
  \A t \in DirectTasks :
    (/\ WindowsReturned(t)
     /\ 0 <= task[t].overlap /\ task[t].overlap < task[t].windowSize
     /\ Len(CallTokens(t)) > 0) =>
      \A k \in 1..Len(task[t].windows) :
        task[t].windows[k].startIndex < task[t].windows[k].endIndex

\* Task t calls precomputeKeywordEmbeddings in this step.
CallsPrecompute(t) ==
  /\ t \in PreTasks
  /\ task[t].pc = "idle"
  /\ task'[t].pc \in {"embed", "done"}

\* C15: a call of precomputeKeywordEmbeddings made while the provider is not
\* ready returns at once, with the cache unchanged and no embedding asked of
\* the backend.
C15_NotReadyNoOp ==
  [][\A t \in PreTasks :
       (CallsPrecompute(t) /\ getStatus # "ready") =>
         /\ task'[t].pc = "done"
         /\ keywordEmbeddingCache' = keywordEmbeddingCache]_vars

\* C15, the part the code keeps: the same while the background's own status
\* variable is not 'ready'.
C15_StatusNotReadyNoOp ==
  [][\A t \in PreTasks :
       (CallsPrecompute(t) /\ mlModelStatus # "ready") =>
         /\ task'[t].pc = "done"
         /\ task'[t].outcome = "skipped"
         /\ keywordEmbeddingCache' = keywordEmbeddingCache]_vars

\* C15, the outcome: the cache has received an entry while the provider is
\* still loading, its warm-up pending.
C15_Witness ==
  /\ DOMAIN keywordEmbeddingCache # {}
  /\ getStatus = "loading"
  /\ isLoading

\* The call of precomputeKeywordEmbeddings by task t has returned, past the
\* readiness check.
PrecomputeReturned(t) ==
  t \in PreTasks /\ task[t].pc = "done" /\ task[t].outcome # "skipped"

\* Task t, awaiting the embedding of a keyword, takes a step.
PrecomputeStep(t) == t \in PreTasks /\ task[t].pc = "embed" /\ task'[t] # task[t]

\* C16, at the end of a call: the call did not fail; every keyword it
\* computed is in the cache; and no keyword was left out because another
\* one failed: each was computed, failed itself, or was found present.
C16_BatchCompletes ==
  \A t \in PreTasks :
    /\ task[t].outcome # "rejected"
    /\ PrecomputeReturned(t) =>
         /\ task[t].succeeded \subseteq DOMAIN keywordEmbeddingCache
         /\ \A j \in 1..Len(task[t].keywords) :
              \/ task[t].keywords[j] \in task[t].succeeded \cup task[t].failed
              \/ HasEntry(keywordEmbeddingCache, task[t].keywords[j])

\* C16, step by step: a failed computation writes nothing, a successful one
\* writes its keyword only, and the entries cached when the call began are
\* untouched.
C16_FailureSkipsKeyword ==
  [][\A t \in PreTasks :
       PrecomputeStep(t) =>
         LET keyword == task[t].keywords[task[t].i]
         IN /\ keyword \in task'[t].failed =>
                 keywordEmbeddingCache' = keywordEmbeddingCache
            /\ \A kw \in DOMAIN keywordEmbeddingCache :
                 (kw # keyword \/ kw \in task[t].cachedKeys) =>
                   /\ kw \in DOMAIN keywordEmbeddingCache'
                   /\ keywordEmbeddingCache'[kw] = keywordEmbeddingCache[kw]]_vars

\* C16: precomputeKeywordEmbeddings never fails its caller, a failure on one
\* keyword does not abort the batch, every keyword computed is cached, a
\* failed one is not written, and entries cached before are untouched.
C16_BatchSurvivesFailures == []C16_BatchCompletes /\ C16_FailureSkipsKeyword

\* C16 witness: a call whose first keyword failed went on to compute and
\* cache its second.
C16_Witness ==
  \E t \in PreTasks :
    /\ PrecomputeReturned(t)
    /\ Len(task[t].keywords) = 2
    /\ task[t].keywords[1] \in task[t].failed
    /\ task[t].keywords[1] \notin DOMAIN keywordEmbeddingCache
    /\ task[t].keywords[2] \in task[t].succeeded
    /\ task[t].keywords[2] \in DOMAIN keywordEmbeddingCache

\* C17: no step removes a cache entry, and a call of precompute that began
\* when a keyword was present never asks the backend for it nor changes its
\* vector.
C17_WriteOnce ==
  [][/\ \A kw \in DOMAIN keywordEmbeddingCache : kw \in DOMAIN keywordEmbeddingCache'
     /\ \A t \in PreTasks :
          /\ task'[t].pc = "embed" =>
               task'[t].keywords[task'[t].i] \notin task'[t].cachedKeys
          /\ task'[t] # task[t] =>
               \A kw \in task'[t].cachedKeys \cap DOMAIN keywordEmbeddingCache :
                 keywordEmbeddingCache'[kw] = keywordEmbeddingCache[kw]]_vars

\* C17 witness: a second call, which found 'gaming' cached, has run and
\* cached 'work'; 'gaming' was not computed again.
C17_Witness ==
  \E t \in PreTasks :
    /\ PrecomputeReturned(t)
    /\ task[t].keywords = <<"gaming", "work">>
    /\ task[t].cachedKeys = {"gaming"}
    /\ task[t].succeeded = {"work"}
    /\ task[t].failed = {}
    /\ DOMAIN keywordEmbeddingCache = {"gaming", "work"}

\* The keyword whose embedding task t awaits.
InFlight(t) == task[t].keywords[task[t].i]

\* C18: at most one embedding computation per keyword is in flight at a
\* time, whatever the interleaving of the precompute calls.
C18_OneInFlight ==
  \A t1, t2 \in PreTasks :
    (t1 # t2 /\ task[t1].pc = "embed" /\ task[t2].pc = "embed") =>
      InFlight(t1) # InFlight(t2)

\* C18, the outcome: two calls have each computed and written the same
\* keyword's entry.
C18_Witness ==
  \E t1, t2 \in PreTasks :
    /\ t1 # t2
    /\ task[t1].succeeded \cap task[t2].succeeded # {}

\* The largest cosine similarity of an embedding to the vectors the cache
\* holds for the keywords of a list; 0 when it holds none of them.
LargestCachedSimilarity(embedding, keywords, cache) ==
  LET present == {k \in 1..Len(keywords) : keywords[k] \in DOMAIN cache}
      scores == {cosineSimilarity(embedding, cache[keywords[k]]).value : k \in present}
  IN IF present = {} THEN 0
     ELSE CHOOSE m \in scores : \A x \in scores : x <= m

\* The embedding of a window of task t's request arrives in this step.
WindowEmbedded(t) ==
  /\ t \in ReqTasks
  /\ task[t].pc = "embed"
  /\ task'[t] # task[t]
  /\ task'[t].caught # "InferenceError"

\* C19: for each window embedded, the blocked score and the allowed score
\* appended are the largest cosine similarity of the window's embedding to
\* the cached vectors of the list's keywords, keywords absent from the cache
\* being skipped, and 0 when none of them is cached.
C19_MaxOverCached ==
  [][\A t \in ReqTasks :
       WindowEmbedded(t) =>
         /\ task'[t].blockedSimilarities =
              Append(task[t].blockedSimilarities,
                     LargestCachedSimilarity(task'[t].pageEmbedding,
                                             task[t].blockedKeywords,
                                             keywordEmbeddingCache))
         /\ task'[t].allowedSimilarities =
              Append(task[t].allowedSimilarities,
                     LargestCachedSimilarity(task'[t].pageEmbedding,
                                             task[t].allowedKeywords,
                                             keywordEmbeddingCache))]_vars

\* C19, the part the code keeps: the same for the requests none of whose
\* keywords is a key of Object.prototype.
C19_MaxOverCachedOwnKeys ==
  [][\A t \in ReqTasks :
       (/\ WindowEmbedded(t)
        /\ \A k \in 1..Len(task[t].blockedKeywords) :
             task[t].blockedKeywords[k] \notin PrototypeKeys) =>
         /\ task'[t].blockedSimilarities =
              Append(task[t].blockedSimilarities,
                     LargestCachedSimilarity(task'[t].pageEmbedding,
                                             task[t].blockedKeywords,
                                             keywordEmbeddingCache))
         /\ task'[t].allowedSimilarities =
              Append(task[t].allowedSimilarities,
                     LargestCachedSimilarity(task'[t].pageEmbedding,
                                             task[t].allowedKeywords,
                                             keywordEmbeddingCache))]_vars

\* C19, the outcome: a window whose embedding equals the cached vector of
\* 'gaming' was answered {0, 0, false}, no score appended.
C19_Witness ==
  \E t \in ReqTasks :
    /\ Responded(t)
    /\ task[t].caught = "DimensionMismatch"
    /\ task[t].blockedKeywords = <<"gaming", "constructor">>
    /\ "gaming" \in DOMAIN keywordEmbeddingCache
    /\ task[t].pageEmbedding = keywordEmbeddingCache["gaming"]
    /\ task[t].blockedSimilarities = <<>>
    /\ task[t].result = NeutralResult

\* C20: GET_ML_STATUS reports 'ready' only while the provider is ready, and
\* reports an error message exactly when the provider holds the error of a
\* failed initialization.
C20_StatusAgrees ==
  /\ GetMLStatus.status = "ready" => getStatus = "ready"
  /\ GetMLStatus.error # NULL <=> getError # NULL

\* C20, the outcome: GET_ML_STATUS answers 'ready' without an error while
\* the provider has no model and holds the error of the failed load.
C20_Witness ==
  /\ GetMLStatus = [status |-> "ready", error |-> NULL]
  /\ model = NULL
  /\ getStatus = "error"
  /\ getError # NULL

\* ------------------------------------------------------------------------
\* C21
\* ------------------------------------------------------------------------

\* C21: the blocking overlay exists only while the timer state last received
\* by the page is active and not in break mode.
C21_OverlayOnlyWhileFocused ==
  blockingOverlay => (timerState.isActive /\ ~timerState.breakMode)

\* The overlay covers the page although the page has been told of the break.
C21_Witness ==
  /\ blockingOverlay
  /\ timerState.isActive
  /\ timerState.breakMode
  /\ portMessages = <<>>
  /\ tabMessages = <<>>

\* The overlay covers the page although the page has been told that the timer
\* stopped, and nothing is left that would remove it.
C21_LateResponse ==
  /\ blockingOverlay
  /\ ~timerState.isActive
  /\ ~currentState.isActive
  /\ portMessages = <<>>
  /\ pendingTabQueries = <<>>
  /\ tabMessages = <<>>
  /\ siteReplies = <<>>
  /\ similarityChecks = 0

\* ------------------------------------------------------------------------
\* C22
\* ------------------------------------------------------------------------

\* One of the two strings occurs in the other.
HostnameMatches(hostname, site) ==
  \/ \E i \in 1..(Len(hostname) + 1), j \in 0..Len(hostname) :
       SubSeq(hostname, i, j) = site
  \/ \E i \in 1..(Len(site) + 1), j \in 0..Len(site) :
       SubSeq(site, i, j) = hostname

\* The answer the timer, the mode and the site lists call for.
ExpectedBlock(url) ==
  LET hostname == ToLowerCase(url.host)
  IN IF ~currentState.isActive \/ currentState.breakMode THEN FALSE
     ELSE IF blockingState.blockMode = "blacklist"
       THEN \E k \in DOMAIN blockingState.blockedSites :
              HostnameMatches(hostname, blockingState.blockedSites[k])
       ELSE \A k \in DOMAIN blockingState.whitelistSites :
              ~HostnameMatches(hostname, blockingState.whitelistSites[k])

\* C22: the answer to CHECK_SITE_BLOCKED is false whenever the timer is not
\* active or is in break mode; otherwise it says, in blacklist mode, whether
\* the hostname matches some blocked site and, in whitelist mode, whether it
\* matches no whitelisted site.
C22_ShouldBlockSite ==
  [][(siteChecks # <<>> /\ CheckSiteBlocked) =>
       siteReplies'[Len(siteReplies')] = ExpectedBlock(Head(siteChecks))]_vars

\* A page on a blacklisted site was answered "do not block" and the timer is
\* in a break.
C22_Witness ==
  /\ siteReplies = << FALSE >>
  /\ currentState.isActive
  /\ currentState.breakMode
  /\ blockingState.blockMode = "blacklist"
  /\ SomeSiteMatches(Hostname(location), blockingState.blockedSites)

\* ------------------------------------------------------------------------
\* C23
\* ------------------------------------------------------------------------

\* C23: with desktop notifications enabled, no more completion notifications
\* of a kind are shown than countdowns of that kind have reached zero.
C23_OneNotificationPerCompletion ==
  settings.desktopNotifications =>
    \A kind \in Kinds : notifications[kind] <= completed[kind]

\* Supplement to C23: a completed break is notified at most once.
C23_OneNotificationPerBreak ==
  notifications["break"] + pendingNotifications["break"] <= completed["break"]

\* One focus session has completed and two notifications were shown for it.
C23_Witness ==
  /\ settings.desktopNotifications
  /\ completed["focus"] = 1
  /\ notifications["focus"] = 2

\* ------------------------------------------------------------------------
\* C24
\* ------------------------------------------------------------------------

IsUpperCase(c) == c \in {"A", "H", "T", "W"}

NotWhitespace(c) == ~IsWhitespace(c)

\* The tokens written one after the other.
RECURSIVE Concat(_)
Concat(tokens) ==
  IF tokens = <<>> THEN <<>> ELSE Head(tokens) \o Concat(Tail(tokens))

\* The number of maximal runs of characters other than whitespace.
Runs(text) ==
  Cardinality({ i \in 1..Len(text) :
                  /\ ~IsWhitespace(text[i])
                  /\ (i = 1 \/ IsWhitespace(text[i - 1])) })

\* tokens is text in lower case cut at its runs of whitespace, in order.
IsTokenization(tokens, text) ==
  /\ \A k \in 1..Len(tokens) :
       /\ Len(tokens[k]) > 0
       /\ \A j \in 1..Len(tokens[k]) :
            ~IsWhitespace(tokens[k][j]) /\ ~IsUpperCase(tokens[k][j])
  /\ Len(tokens) = Runs(text)
  /\ Concat(tokens) = SelectSeq([i \in 1..Len(text) |-> LowerCaseOf(text[i])],
                                NotWhitespace)

\* C24: the tokens of a text are its lower-cased runs of characters other
\* than whitespace, in order and none empty; joining them with single spaces
\* and tokenizing again gives the same tokens; and 'Hello World Test' gives
\* hello, world, test.
C24_Tokenize ==
  \A t \in DirectTasks :
    task[t].pc # "idle" =>
      /\ IsTokenization(CallTokens(t), WindowTexts[task[t].text])
      /\ tokenize(Join(CallTokens(t))) = CallTokens(t)
      /\ WindowTexts[task[t].text] = HelloWorldTest =>
           CallTokens(t) = << <<"h", "e", "l", "l", "o">>,
                              <<"w", "o", "r", "l", "d">>,
                              <<"t", "e", "s", "t">> >>

\* 'Hello World Test' was tokenized and came back as one window.
C24_Witness ==
  \E t \in DirectTasks :
    /\ WindowsReturned(t)
    /\ WindowTexts[task[t].text] = HelloWorldTest
    /\ task[t].windowSize = 3
    /\ task[t].windows[1].endIndex = 3

\* ------------------------------------------------------------------------
\* C25
\* ------------------------------------------------------------------------

\* The values that the lookups of a request's keywords hand to
\* cosineSimilarity.
ComparedVectors(rec, cache) ==
  { Lookup(cache, rec.blockedKeywords[k]) :
      k \in { j \in 1..Len(rec.blockedKeywords) : HasEntry(cache, rec.blockedKeywords[j]) } }
  \cup
  { Lookup(cache, rec.allowedKeywords[k]) :
      k \in { j \in 1..Len(rec.allowedKeywords) : HasEntry(cache, rec.allowedKeywords[j]) } }

\* C25: cosineSimilarity of two vectors of different lengths raises and
\* returns nothing, and the request in which this happens is answered
\* {0, 0, false}.
C25_DimensionMismatch ==
  [][\A t \in ReqTasks :
       WindowEmbedded(t) =>
         \A v \in ComparedVectors(task[t], keywordEmbeddingCache) :
           Len(v) # Len(task'[t].pageEmbedding) =>
             /\ cosineSimilarity(task'[t].pageEmbedding, v) = Thrown
             /\ Responded(t)'
             /\ task'[t].caught = "DimensionMismatch"
             /\ task'[t].result = NeutralResult]_vars

\* A window embedded as (0.3, 0.9, 0.3, 0.1) met a looked-up value of length
\* 1 and the request was answered {0, 0, false}.
C25_Witness ==
  \E t \in ReqTasks :
    /\ Responded(t)
    /\ task[t].caught = "DimensionMismatch"
    /\ task[t].pageEmbedding = <<3, 9, 3, 1>>
    /\ \E v \in ComparedVectors(task[t], keywordEmbeddingCache) : Len(v) = 1
    /\ task[t].result = NeutralResult


\* ------------------------------------------------------------------------
\* C26: for vectors of equal length cosineSimilarity returns a value between
\* 0 and 1: 0 when a vector has zero norm, 0 when the cosine is negative, 1
\* when the quotient overshoots 1, and for unit vectors the clamped cosine
\* itself: 1 (within 0.001) for a vector with itself and 0 (within 0.001) for
\* two orthogonal vectors.
\* ------------------------------------------------------------------------

Dot(a, b) == SumOver([i \in 1..Len(a) |-> a[i] * b[i]], Len(a))

IsUnit(a) == Dot(a, a) = UNIT * UNIT

C26_CosineRange ==
  \A t \in DirectTasks :
    (task[t].pc = "done" /\ task[t].outcome \in {"similarity", "DimensionMismatch"}) =>
      LET a == task[t].pageEmbedding
          b == task[t].keywordEmbedding
          value == task[t].similarity
      IN /\ (task[t].outcome = "similarity") <=> (Len(a) = Len(b))
         /\ task[t].outcome = "similarity" =>
              /\ value \in 0..SCALE
              /\ (Dot(a, a) = 0 \/ Dot(b, b) = 0) => value = 0
              /\ Dot(a, b) < 0 => value = 0
              /\ (Dot(a, a) > 0 /\ Dot(b, b) > 0
                    /\ Dot(a, b) * Dot(a, b) >= Dot(a, a) * Dot(b, b) /\ Dot(a, b) > 0)
                   => value = SCALE
              /\ (IsUnit(a) /\ IsUnit(b)) =>
                   /\ value = Max(0, Min(SCALE, (Dot(a, b) * SCALE) \div (UNIT * UNIT)))
                   /\ a = b => SCALE - value <= 1
                   /\ Dot(a, b) = 0 => value <= 1

C26_Witness ==
  \E t \in DirectTasks :
    /\ task[t].pc = "done"
    /\ task[t].outcome = "similarity"
    /\ task[t].pageEmbedding = <<10, 0, 0, 0>>
    /\ task[t].keywordEmbedding = <<-10, 0, 0, 0>>
    /\ task[t].similarity = 0

\* ------------------------------------------------------------------------
\* C27: getStatus and getError read the provider's state without changing
\* it, and getStatus reads 'loading' whenever an initialization attempt is
\* in flight (a retry after an error included), 'ready' only after the load
\* and the warm-up succeeded, and 'error' only when the last attempt failed
\* and no attempt is in flight.
\* ------------------------------------------------------------------------

C27_StatusReflects ==
  /\ AttemptsInFlight # {} => getStatus = "loading"
  /\ getStatus = "ready" => (model # NULL /\ loadError = NULL /\ AttemptsInFlight = {})
  /\ getStatus = "error" => (getError # NULL /\ AttemptsInFlight = {})

\* C27, the part the code keeps: 'ready' is read only with a model, no error
\* and no attempt in flight, 'error' only with a recorded failure, and a first
\* attempt in flight reads 'loading'.
C27_ReadyAfterWarmup ==
  /\ getStatus = "ready" => (model # NULL /\ loadError = NULL /\ AttemptsInFlight = {})
  /\ getStatus = "error" <=> getError # NULL
  /\ (AttemptsInFlight # {} /\ loadError = NULL) => getStatus = "loading"

\* C27 witness: a retry is in flight after a failed load and getStatus still
\* reads 'error'.
C27_Witness ==
  /\ AttemptsInFlight # {}
  /\ isLoading
  /\ getStatus = "error"

\* ------------------------------------------------------------------------
\* C28: a call of initialize made in Error with no attempt in flight starts
\* a new attempt, whether the load or the warm-up of the previous attempt
\* failed; a call returns without doing anything only when the provider is
\* ready.
\* ------------------------------------------------------------------------

C28_RetryFromError ==
  [][\A t \in Tasks :
       /\ (getStatus = "error" /\ AttemptsInFlight = {} /\ CallsInitialize(t)) =>
            (task'[t].pc = "initLoad" /\ isLoading')
       /\ (AttemptsInFlight = {} /\ CallsInitialize(t) /\ task'[t].pc = "done") =>
            getStatus = "ready"]_vars

\* C28, the part the code keeps: after a failed load a call of initialize
\* starts a new attempt, and a call on a ready provider changes nothing in it.
C28_RetryAfterFailedLoad ==
  [][\A t \in Tasks :
       /\ (getStatus = "error" /\ model = NULL /\ ~isLoading /\ CallsInitialize(t)) =>
            (task'[t].pc = "initLoad" /\ isLoading')
       /\ (getStatus = "ready" /\ CallsInitialize(t)) =>
            (task'[t].pc = "done" /\ UNCHANGED <<model, isLoading, loadError>>)]_vars

\* C28 witness: the warm-up failed, and a call of initializeMLModel made
\* after it returned at once (the host status is 'ready') with the provider
\* still in error.
C28_Witness ==
  /\ getStatus = "error"
  /\ model # NULL
  /\ ~isLoading
  /\ mlModelStatus = "ready"
  /\ \E t \in InitTasks : task[t].pc = "done" /\ task[t].outcome = "resolved"

\* ------------------------------------------------------------------------
\* C29: once the provider is ready, no call of initialize starts a backend
\* load or changes the model handle or the state; a backend load succeeds
\* only while there is no model, and the handle, once set, never changes, so
\* the backend is loaded successfully at most once.
\* ------------------------------------------------------------------------

\* The backend load of task t succeeds in this step.
LoadSucceeds(t) == task[t].pc = "initLoad" /\ task'[t].pc = "initWarm"

C29_LoadedOnce ==
  [][/\ getStatus = "ready" =>
          /\ UNCHANGED <<model, isLoading, loadError>>
          /\ LoadsInFlight' = {}
          /\ \A t \in Tasks : CallsInitialize(t) => task'[t].pc = "done"
     /\ model # NULL => model' = model
     /\ \A t \in Tasks : LoadSucceeds(t) => (model = NULL /\ model' # NULL)]_vars

\* C29 witness: the provider is ready and the initialize calls of all three
\* callers have resolved.
C29_Witness ==
  /\ getStatus = "ready"
  /\ \A t \in InitTasks \cup DirectTasks :
       task[t].pc = "done" /\ task[t].outcome = "resolved"

\* ------------------------------------------------------------------------
\* C30: a similarity request that arrives while the host status is error or
\* null starts a new initialization attempt; one that arrives while the
\* status is loading waits for the attempt in flight; and when the attempt it
\* started or waited for has succeeded, the request goes on to the scoring
\* instead of answering with the neutral result of the readiness check.
\* ------------------------------------------------------------------------

\* A COMPUTE_PAGE_SIMILARITY message is taken up by task t in this step.
RequestArrives(t) == t \in ReqTasks /\ task[t].pc = "idle" /\ task'[t].pc # "idle"

\* The wait of task t for the model ends in this step.
WaitEnds(t) ==
  /\ t \in ReqTasks
  /\ task[t].pc \in {"initLoad", "initWarm", "initPoll", "statusPoll"}
  /\ task'[t].pc \notin {"initLoad", "initWarm", "initPoll", "statusPoll"}

C30_RequestInitializes ==
  [][\A t \in ReqTasks :
       /\ (RequestArrives(t) /\ mlModelStatus \in {NULL, "error"}) =>
            (task'[t].pc = "initLoad" /\ isLoading' /\ mlModelStatus' = "loading")
       /\ (RequestArrives(t) /\ mlModelStatus = "loading") =>
            (task'[t].pc = "statusPoll" /\ UNCHANGED <<provider, host>>)
       /\ (task[t].pc = "statusPoll" /\ WaitEnds(t)) => AttemptsInFlight = {}
       /\ (WaitEnds(t) /\ getStatus' = "ready") =>
            task'[t] = ProcessWindows(task[t], "ready", model')]_vars

\* C30, the part the code keeps: a request that arrives while the status is
\* error or null and the provider has no model starts an attempt, one that
\* arrives while the status is loading waits on the status, and a request
\* whose wait ends with the provider ready goes on to the scoring.
C30_ScoredAfterSuccess ==
  [][\A t \in ReqTasks :
       /\ (RequestArrives(t) /\ mlModelStatus \in {NULL, "error"} /\ model = NULL) =>
            (task'[t].pc = "initLoad" /\ isLoading' /\ mlModelStatus' = "loading")
       /\ (RequestArrives(t) /\ mlModelStatus = "loading") =>
            (task'[t].pc = "statusPoll" /\ UNCHANGED <<provider, host>>)
       /\ (WaitEnds(t) /\ getStatus' = "ready") =>
            task'[t] = ProcessWindows(task[t], "ready", model')]_vars

\* C30 witness: after a failed warm-up the host status went back to 'ready'
\* without a new attempt, and a request had a window embedded on the provider
\* in error.
C30_Witness ==
  /\ getStatus = "error"
  /\ model # NULL
  /\ mlModelStatus = "ready"
  /\ \E t \in ReqTasks : task[t].embedCalls > 0

\* ------------------------------------------------------------------------
\* C31: while no step of a request has failed, its windows are embedded in
\* order from the first, the blocked and the allowed score lists have the
\* same length, the number of windows processed; the request does not end
\* before ceil(total * 0.5) windows are processed, and it ends before the last
\* window only on a window at or beyond that mark that scored above 0.85.
\* ------------------------------------------------------------------------

C31_WindowsInOrder ==
  \A t \in ReqTasks :
    (task[t].caught = NULL /\ task[t].embedCalls > 0) =>
      LET total == Len(PageWindows[task[t].text])
          processed == Len(task[t].blockedSimilarities)
      IN /\ Len(task[t].allowedSimilarities) = processed
         /\ processed <= total
         /\ task[t].pc = "embed" =>
              (task[t].i = processed + 1 /\ task[t].embedCalls = processed + 1)
         /\ Responded(t) =>
              /\ task[t].embedCalls = processed
              /\ processed >= CeilHalf(total)
              /\ (\A k \in CeilHalf(total)..processed :
                    task[t].blockedSimilarities[k] <= EARLY_EXIT_THRESHOLD)
                   => processed = total
              /\ \A k \in 1..(processed - 1) :
                   ~(task[t].blockedSimilarities[k] > EARLY_EXIT_THRESHOLD
                       /\ k >= CeilHalf(total))

\* C31 witness: of four windows the first scored above 0.85 before the mark,
\* no later one did, and all four were processed.
C31_Witness ==
  \E t \in ReqTasks :
    /\ Responded(t)
    /\ task[t].caught = NULL
    /\ task[t].text \in DOMAIN PageTexts
    /\ Len(PageWindows[task[t].text]) = 4
    /\ Len(task[t].blockedSimilarities) = 4
    /\ Len(task[t].allowedSimilarities) = 4
    /\ task[t].blockedSimilarities[1] > EARLY_EXIT_THRESHOLD
    /\ \A k \in 2..4 : task[t].blockedSimilarities[k] <= EARLY_EXIT_THRESHOLD

\* ------------------------------------------------------------------------
\* C32: for a text of more than windowSize tokens and 0 <= overlap <
\* windowSize, createSlidingWindows terminates; window k (from 0) starts at
\* k * (windowSize - overlap); every window has at most windowSize tokens,
\* endIndex - startIndex of them, and ends at or before the token count;
\* every window but the last has exactly windowSize tokens; no window has
\* fewer than a quarter of windowSize tokens; and the text of a window is the
\* tokens from startIndex to endIndex joined by single spaces.
\* ------------------------------------------------------------------------

C32_WindowShape ==
  \A t \in DirectTasks :
    (/\ task[t].pc \in {"windowLoop", "done"}
     /\ task[t].pc = "done" => task[t].outcome = "windows"
     /\ Len(tokenize(WindowTexts[task[t].text])) > task[t].windowSize
     /\ 0 <= task[t].overlap
     /\ task[t].overlap < task[t].windowSize) =>
      LET tokens == tokenize(WindowTexts[task[t].text])
          windowSize == task[t].windowSize
          stride == task[t].windowSize - task[t].overlap
          windows == task[t].windows
      IN /\ task[t].pc = "windowLoop" =>
              (task[t].i = Len(windows) * stride /\ task[t].i < Len(tokens))
         /\ Len(windows) <= Len(tokens)
         /\ \A k \in 1..Len(windows) :
              LET w == windows[k]
              IN /\ w.startIndex = (k - 1) * stride
                 /\ w.endIndex <= Len(tokens)
                 /\ w.endIndex - w.startIndex <= windowSize
                 /\ 4 * (w.endIndex - w.startIndex) >= windowSize
                 /\ (k < Len(windows) \/ task[t].pc = "windowLoop") =>
                      w.endIndex - w.startIndex = windowSize
                 /\ w.text = Join(SubSeq(tokens, w.startIndex + 1, w.endIndex))
                 /\ Len(tokenize(w.text)) = w.endIndex - w.startIndex

\* C32 witness: seven tokens in windows of 5 overlapping by 2 came back as
\* [0,5) and the shorter [3,7).
C32_Witness ==
  \E t \in DirectTasks :
    /\ task[t].pc = "done"
    /\ task[t].outcome = "windows"
    /\ task[t].windowSize = 5
    /\ task[t].overlap = 2
    /\ Len(tokenize(WindowTexts[task[t].text])) = 7
    /\ Len(task[t].windows) = 2
    /\ task[t].windows[2].startIndex = 3
    /\ task[t].windows[2].endIndex = 7

\* ------------------------------------------------------------------------
\* C33: when the overlap is at least a quarter of windowSize, and 0 <=
\* overlap < windowSize, createSlidingWindows discards no trailing slice:
\* every token index from 0 to the token count - 1 lies in a window. This
\* is so for the aggregator's windows of 512 overlapping by 128.
\* ------------------------------------------------------------------------

\* Every token index below tokenCount lies in one of the windows.
Covers(windows, tokenCount) ==
  \A j \in 0..(tokenCount - 1) :
    \E k \in 1..Len(windows) : windows[k].startIndex <= j /\ j < windows[k].endIndex

\* The windows of computePageSimilarity cover the tokens of every page text.
PageWindowsCover ==
  /\ 4 * OVERLAP >= WINDOW_SIZE
  /\ \A id \in DOMAIN PageTexts : Covers(PageWindows[id], Len(tokenize(PageTexts[id])))

C33_NoDiscard ==
  /\ PageWindowsCover
  /\ \A t \in DirectTasks :
       (/\ WindowsReturned(t)
        /\ 0 <= task[t].overlap
        /\ task[t].overlap < task[t].windowSize
        /\ 4 * task[t].overlap >= task[t].windowSize) =>
         /\ Covers(task[t].windows, Len(CallTokens(t)))
         /\ Len(CallTokens(t)) > 0 =>
              task[t].windows[Len(task[t].windows)].endIndex = Len(CallTokens(t))

\* C33 witness: six tokens in windows of 5 overlapping by 2 came back as
\* [0,5) and [3,6), the trailing slice of three tokens kept.
C33_Witness ==
  \E t \in DirectTasks :
    /\ WindowsReturned(t)
    /\ task[t].windowSize = 5
    /\ task[t].overlap = 2
    /\ Len(CallTokens(t)) = 6
    /\ Len(task[t].windows) = 2
    /\ task[t].windows[2].startIndex = 3
    /\ task[t].windows[2].endIndex = 6

\* ------------------------------------------------------------------------
\* C34: no step of computePageSimilarity adds, changes or removes an entry of
\* the keyword cache, and a request answered while none of its blocked
\* keywords is cached has blockedSimilarity 0 and shouldBlock false, whatever
\* its text.
\* ------------------------------------------------------------------------

\* None of the keywords is an entry of the cache.
NoneCached(keywords, cache) == \A k \in 1..Len(keywords) : keywords[k] \notin DOMAIN cache

C34_ReadsCacheOnly ==
  [][\A t \in ReqTasks :
       /\ task'[t] # task[t] => keywordEmbeddingCache' = keywordEmbeddingCache
       /\ (~Responded(t) /\ Responded(t)'
             /\ NoneCached(task'[t].blockedKeywords, keywordEmbeddingCache)) =>
            /\ task'[t].result.blockedSimilarity = 0
            /\ ~task'[t].result.shouldBlock]_vars

\* C34 witness: with an empty cache a request on a text of two windows had
\* both embedded and was answered with scores of 0.
C34_Witness ==
  \E t \in ReqTasks :
    /\ Responded(t)
    /\ task[t].caught = NULL
    /\ keywordEmbeddingCache = << >>
    /\ task[t].embedCalls = 2
    /\ task[t].blockedSimilarities = <<0, 0>>
    /\ task[t].result = NeutralResult

\* ------------------------------------------------------------------------
\* C35: when a similarity request has called initializeMLModel, the stored
\* blocked and allowed keywords are in the cache by the time a window of that
\* request is scored.
\* ------------------------------------------------------------------------

C35_PrecomputedBeforeScoring ==
  [][\A t \in ReqTasks :
       (task[t].initialized /\ WindowEmbedded(t)) =>
          \A k \in 1..Len(StoredKeywords) :
            StoredKeywords[k] \in DOMAIN keywordEmbeddingCache]_vars

\* C35 witness: a request that called initializeMLModel was answered from two
\* windows scored against an empty cache, the storage read of the
\* initialization still pending.
C35_Witness ==
  \E t \in ReqTasks :
    /\ task[t].initialized
    /\ Responded(t)
    /\ task[t].caught = NULL
    /\ task[t].blockedSimilarities = <<0, 0>>
    /\ keywordEmbeddingCache = << >>
    /\ pendingStorageGets > 0

\* ------------------------------------------------------------------------
\* C36: every COMPUTE_PAGE_SIMILARITY request is eventually answered, and
\* answered once, when every backend load and inference settles: also a
\* request that arrives while the model is loading and polls the status, and
\* requests handled at the same time.
\* ------------------------------------------------------------------------

IsReset(state) ==
  /\ ~state.isActive
  /\ ~state.breakMode
  /\ state.timeLeft = state.initialTime
  /\ state.breakTimeLeft = state.breakInitialTime

C38_ResetStops ==
  [][/\ ResetTimer =>
          /\ IsReset(currentState')
          /\ currentState'.initialTime = currentState.initialTime
          /\ currentState'.breakInitialTime = currentState.breakInitialTime
          /\ ~timerInterval'
     /\ (sinceReset /\ sinceReset') =>
          (currentState' = currentState /\ timerInterval' = timerInterval)]_vars

\* C38, the part the code keeps: the state RESET_TIMER leaves, and no tick
\* after it.
C38_ResetState ==
  [][/\ ResetTimer =>
          /\ IsReset(currentState')
          /\ currentState'.initialTime = currentState.initialTime
          /\ currentState'.breakInitialTime = currentState.breakInitialTime
          /\ ~timerInterval'
     /\ sinceReset => ~timerInterval]_vars

\* C38 witness: with no message since RESET_TIMER, the callback of a
\* settings read that was pending has put the stopped timer in break mode.
C38_Witness ==
  /\ sinceReset
  /\ ~currentState.isActive
  /\ currentState.breakMode
  /\ ~timerInterval

\* ------------------------------------------------------------------------
\* C39: when the focus countdown reaches zero, the decision is taken in the
\* callback of the settings read issued at that tick: with auto-start of
\* breaks enabled and breakInitialTime > 0 the timer enters break mode with
\* breakTimeLeft = breakInitialTime; otherwise it becomes inactive with
\* timeLeft = initialTime and the interval cleared. timeLeft and
\* breakTimeLeft are never negative.
\* ------------------------------------------------------------------------

\* The focus countdown reaches zero in this step.
FocusReachesZero ==
  /\ ~currentState.breakMode
  /\ currentState.timeLeft > 0
  /\ currentState'.timeLeft = 0
  /\ timerInterval

C39_FocusZero ==
  [][/\ FocusReachesZero =>
          /\ pendingSettingsGets' = pendingSettingsGets + 1
          /\ currentState'.isActive /\ ~currentState'.breakMode
     /\ SettingsCallback =>
          IF settings.autoStartBreaks /\ currentState.breakInitialTime > 0
            THEN /\ currentState'.breakMode
                 /\ currentState'.breakTimeLeft = currentState'.breakInitialTime
                 /\ currentState'.isActive = currentState.isActive
                 /\ timerInterval' = timerInterval
            ELSE /\ ~currentState'.isActive
                 /\ currentState'.timeLeft = currentState'.initialTime
                 /\ ~timerInterval'
     /\ currentState'.timeLeft >= 0
     /\ currentState'.breakTimeLeft >= 0]_vars

\* C39 witness: the focus countdown has reached zero and, auto-start being
\* enabled, the running timer is in break mode with the whole break ahead.
C39_Witness ==
  /\ completed["focus"] = 1
  /\ pendingSettingsGets = 0
  /\ settings.autoStartBreaks
  /\ currentState.isActive
  /\ timerInterval
  /\ currentState.breakMode
  /\ currentState.breakTimeLeft = currentState.breakInitialTime
  /\ currentState.timeLeft = 0

\* ------------------------------------------------------------------------
\* C40: when the break countdown reaches zero the timer becomes inactive
\* and leaves break mode with timeLeft = initialTime and breakTimeLeft =
\* breakInitialTime, the interval is cleared, and the new state is saved and
\* sent to every connected client and, through a tab query, to every tab.
\* ------------------------------------------------------------------------

\* The break countdown reaches zero in this step.
BreakReachesZero ==
  /\ timerInterval
  /\ currentState.breakMode
  /\ completed'["break"] = completed["break"] + 1

C40_BreakZero ==
  [][BreakReachesZero =>
       /\ IsReset(currentState')
       /\ currentState'.initialTime = currentState.initialTime
       /\ currentState'.breakInitialTime = currentState.breakInitialTime
       /\ ~timerInterval'
       /\ storedTimerState' = currentState'
       /\ connectedClients > 0 =>
            /\ portMessages' = Append(portMessages, TimerUpdate(currentState'))
            /\ pendingTabQueries' = Append(pendingTabQueries, "TIMER_UPDATE")]_vars

\* C40 witness: the break has ended, the stopped timer is saved, and the
\* content script of the open page has taken the update from its port.
C40_Witness ==
  /\ completed["break"] = 1
  /\ connectedClients > 0
  /\ IsReset(currentState)
  /\ ~timerInterval
  /\ storedTimerState = currentState
  /\ portMessages = <<>>
  /\ pendingTabQueries = <<>>
  /\ tabMessages = <<>>
  /\ timerState = TimerFields(currentState)

====
